---- MODULE Spec2Model ----
(***************************************************************************)
(* Model of the raytracer (crate raytrace-lib and its callers).            *)
(*                                                                         *)
(* Numbers.  The program computes in f64.  The model computes in decimal   *)
(* fixed point: the integer n stands for the real n / Scale, and every     *)
(* product, quotient and square root is rounded to the nearest             *)
(* representable value, as an f64 operation rounds its exact result.       *)
(* Division by zero yields the IEEE results Inf, -Inf and NaN.             *)
(***************************************************************************)
EXTENDS Integers, Sequences, FiniteSets, TLC

\* ------------------------------------------------------------------------
\* Fixed-point arithmetic standing for f64
\* ------------------------------------------------------------------------

\* Number of representable steps per unit.
Scale == 10 * 10 * 10

\* n stands for the real n / Scale.
Num(n) == n * Scale

\* The smallest positive number.  Its square rounds to zero: it stands for
\* the positive f64 values below 2^-538 (1e-200 is one), whose squares
\* underflow to 0.0.
Tiny == Scale \div Scale

Half == Scale \div 2

Inf == 2 * 1000000000

NaN == 0 - (Inf + 1)

Abs(a) == IF a < 0 THEN 0 - a ELSE a

Min(a, b) == IF a < b THEN a ELSE b

\* n / d rounded to the nearest integer, halves upward (d > 0).
RoundDiv(n, d) == (2 * n + d) \div (2 * d)

\* f64 multiplication
Mul(a, b) == RoundDiv(a * b, Scale)

\* f64 division
Div(a, b) ==
    IF b = 0 THEN (IF a = 0 THEN NaN ELSE IF a > 0 THEN Inf ELSE 0 - Inf)
    ELSE IF b > 0 THEN RoundDiv(a * Scale, b)
    ELSE RoundDiv((0 - a) * Scale, 0 - b)

RECURSIVE ISqrtSearch(_, _, _)
\* Largest r in lo..hi with r * r <= n.
ISqrtSearch(n, lo, hi) ==
    IF lo >= hi THEN lo
    ELSE IF ((lo + hi + 1) \div 2) * ((lo + hi + 1) \div 2) <= n
         THEN ISqrtSearch(n, (lo + hi + 1) \div 2, hi)
         ELSE ISqrtSearch(n, lo, ((lo + hi + 1) \div 2) - 1)

\* The nearer of r and r + 1 to the square root of n, r being its floor
SqrtNearest(n, r) == IF (r + 1) * (r + 1) - n < n - r * r THEN r + 1 ELSE r

\* f64::sqrt on a non-negative number
Sqrt(a) == SqrtNearest(a * Scale, ISqrtSearch(a * Scale, 0, 46339))

\* FLOAT_EPS = 1 / FLOAT_EPS_DEN
FLOAT_EPS_DEN == 1000000

\* a < FLOAT_EPS
LtEps(a) == IF a >= Scale THEN FALSE ELSE IF a <= 0 THEN TRUE ELSE a * FLOAT_EPS_DEN < Scale

\* a < -FLOAT_EPS
LtNegEps(a) == IF a >= 0 THEN FALSE ELSE IF a <= 0 - Scale THEN TRUE ELSE a * FLOAT_EPS_DEN < 0 - Scale

\* ------------------------------------------------------------------------
\* Option<T>
\* ------------------------------------------------------------------------

None == [some |-> FALSE]

Some(v) == [some |-> TRUE, val |-> v]

\* ------------------------------------------------------------------------
\* vec3.rs
\* ------------------------------------------------------------------------

Vec3(x, y, z) == [x |-> x, y |-> y, z |-> z]

\* Vec3 with the components given in whole units
V(x, y, z) == Vec3(Num(x), Num(y), Num(z))

VAdd(a, b) == Vec3(a.x + b.x, a.y + b.y, a.z + b.z)

VSub(a, b) == Vec3(a.x - b.x, a.y - b.y, a.z - b.z)

VScale(a, s) == Vec3(Mul(a.x, s), Mul(a.y, s), Mul(a.z, s))

VDiv(a, s) == Vec3(Div(a.x, s), Div(a.y, s), Div(a.z, s))

cross(a, b) ==
    Vec3(Mul(a.y, b.z) - Mul(a.z, b.y),
         Mul(a.z, b.x) - Mul(a.x, b.z),
         Mul(a.x, b.y) - Mul(a.y, b.x))

dot(a, b) == Mul(a.x, b.x) + Mul(a.y, b.y) + Mul(a.z, b.z)

length_squared(a) == Mul(a.x, a.x) + Mul(a.y, a.y) + Mul(a.z, a.z)

length(a) == Sqrt(length_squared(a))

normalize(a) == VDiv(a, length(a))

direction_to(a, other) == normalize(VSub(other, a))

reflect(a, normal) == VSub(a, VScale(VScale(normal, Num(2)), dot(normal, a)))

is_unit(a) == LtEps(length(a) - Num(1))

rotate(a, rot) ==
    Vec3(Mul(rot[1][1], a.x) + Mul(rot[1][2], a.y) + Mul(rot[1][3], a.z),
         Mul(rot[2][1], a.x) + Mul(rot[2][2], a.y) + Mul(rot[2][3], a.z),
         Mul(rot[3][1], a.x) + Mul(rot[3][2], a.y) + Mul(rot[3][3], a.z))

\* ------------------------------------------------------------------------
\* rotation.rs
\* ------------------------------------------------------------------------

UP_DIRECTION == V(0, 1, 0)

\* The matrix built from the normalized direction v and the x axis
RotationOfAxes(v, x_axis, y_axis) ==
    << <<x_axis.x, y_axis.x, v.x>>,
       <<x_axis.y, y_axis.y, v.y>>,
       <<x_axis.z, y_axis.z, v.z>> >>

RotationOfX(v, x_axis) == RotationOfAxes(v, x_axis, cross(v, x_axis))

RotationOfUnit(v) == RotationOfX(v, normalize(cross(UP_DIRECTION, v)))

\* impl From<Vec3> for Rotation
RotationFrom(v) == RotationOfUnit(normalize(v))

\* ------------------------------------------------------------------------
\* color.rs
\* ------------------------------------------------------------------------

Color(r, g, b) == [r |-> r, g |-> g, b |-> b]

ColorZero == Color(0, 0, 0)

\* Color::scale
ColorScale(c, s) ==
    Color(Min(Mul(c.r, s), Num(1)), Min(Mul(c.g, s), Num(1)), Min(Mul(c.b, s), Num(1)))

\* Color::is_zero
ColorIsZero(c) == c.r <= 0 /\ c.g <= 0 /\ c.b <= 0

\* Mutant of ColorAdd: the sums are not clamped.
ColorAddUnclamped(a, b) == Color(a.r + b.r, a.g + b.g, a.b + b.b)

\* impl Add for Color
ColorAdd(a, b) ==
    Color(Min(a.r + b.r, Num(1)), Min(a.g + b.g, Num(1)), Min(a.b + b.b, Num(1)))

\* impl Mul for Color
ColorMul(a, b) == Color(Mul(a.r, b.r), Mul(a.g, b.g), Mul(a.b, b.b))

\* ------------------------------------------------------------------------
\* primitive.rs
\* ------------------------------------------------------------------------

Intersection(pos, normal) == [pos |-> pos, normal |-> normal]

\* Plane::new
PlaneNew(point, normal) == [kind |-> "Plane", point |-> point, normal |-> normalize(normal)]

\* Triangle::new, given the two edges
TriangleOfEdges(t1, t2, t3, l12, l13) ==
    [kind |-> "Triangle", t1 |-> t1, t2 |-> t2, t3 |-> t3,
     normal |-> cross(l12, l13), l12 |-> l12, l13 |-> l13]

\* Triangle::new
TriangleNew(t1, t2, t3) == TriangleOfEdges(t1, t2, t3, VSub(t2, t1), VSub(t3, t1))

\* Sphere::new
SphereNew(center, radius) == [kind |-> "Sphere", center |-> center, radius |-> radius]

\* Plane::intersection once d is known
PlaneAt(self, ray, d) ==
    IF LtEps(d) THEN None
    ELSE Some(Intersection(VAdd(ray.origin, VScale(ray.dir, d)), self.normal))

\* Mutant of PlaneHit: a parallel ray that starts in the plane hits it at
\* its origin.
PlaneHitInPlane(self, ray, dir_dot_normal) ==
    IF LtEps(Abs(dir_dot_normal))
    THEN (IF dot(VSub(self.point, ray.origin), self.normal) = 0
          THEN Some(Intersection(ray.origin, self.normal))
          ELSE None)
    ELSE PlaneAt(self, ray,
                 Div(dot(VSub(self.point, ray.origin), self.normal), dir_dot_normal))

\* Plane::intersection once dir_dot_normal is known
PlaneHit(self, ray, dir_dot_normal) ==
    IF LtEps(Abs(dir_dot_normal)) THEN None
    ELSE PlaneAt(self, ray,
                 Div(dot(VSub(self.point, ray.origin), self.normal), dir_dot_normal))

\* impl Intersectable for Plane
PlaneIntersection(self, ray) == PlaneHit(self, ray, dot(ray.dir, self.normal))

\* Triangle::intersection once the distance is known
TriangleAt(self, ray, distance) ==
    IF LtEps(distance) THEN None
    ELSE Some(Intersection(VAdd(ray.origin, VScale(ray.dir, distance)), self.normal))

\* Triangle::intersection once u and v are known
TriangleUV(self, ray, f, q, u, v) ==
    IF v < 0 \/ u + v > Num(1) THEN None
    ELSE TriangleAt(self, ray, Mul(f, dot(self.l13, q)))

\* Triangle::intersection once u and q are known
TriangleU(self, ray, f, q, u) ==
    IF ~(0 <= u /\ u <= Num(1)) THEN None
    ELSE TriangleUV(self, ray, f, q, u, Mul(f, dot(ray.dir, q)))

\* Triangle::intersection once f and s are known
TriangleFS(self, ray, h, f, s) ==
    TriangleU(self, ray, f, cross(s, self.l12), Mul(f, dot(s, h)))

\* Triangle::intersection once h and a are known
TriangleHA(self, ray, h, a) ==
    IF ~LtNegEps(a) /\ LtEps(a) THEN None
    ELSE TriangleFS(self, ray, h, Div(Num(1), a), VSub(ray.origin, self.t1))

TriangleH(self, ray, h) == TriangleHA(self, ray, h, dot(self.l12, h))

\* impl Intersectable for Triangle
TriangleIntersection(self, ray) == TriangleH(self, ray, cross(ray.dir, self.l13))

\* Sphere::intersection once the hit point is known
SphereAtPos(self, pos) == Some(Intersection(pos, VSub(pos, self.center)))

\* Mutant of SphereRoots: the first root is taken whenever it is not negative.
SphereRootsFirst(self, ray, t0, t1) ==
    IF t0 < 0 /\ t1 < 0 THEN None
    ELSE SphereAtPos(self,
             VAdd(ray.origin, VScale(ray.dir, IF t0 < 0 THEN t1 ELSE t0)))

\* Sphere::intersection once the roots are known: the "minimum but not
\* negative" match
SphereRoots(self, ray, t0, t1) ==
    IF t0 < 0 /\ t1 < 0 THEN None
    ELSE SphereAtPos(self,
             VAdd(ray.origin,
                  VScale(ray.dir,
                         IF t0 < 0 THEN t1 ELSE IF t1 < 0 THEN t0 ELSE Min(t0, t1))))

\* Sphere::intersection, two roots, once q is known
SphereQ(self, ray, a, c, q) == SphereRoots(self, ray, Div(q, a), Div(c, q))

\* Sphere::intersection, one root
SphereTangent(self, ray, t) == SphereRoots(self, ray, t, t)

\* Sphere::intersection once the discriminant is known
SphereDiscr(self, ray, a, b, c, discr) ==
    IF LtNegEps(discr) THEN None
    ELSE IF LtEps(discr) THEN SphereTangent(self, ray, Div(Mul(0 - Half, b), a))
    ELSE SphereQ(self, ray, a, c,
                 Mul(0 - Half, IF b > 0 THEN b + Sqrt(discr) ELSE b - Sqrt(discr)))

\* Sphere::intersection once a, b and c are known
SphereABC(self, ray, a, b, c) ==
    SphereDiscr(self, ray, a, b, c, Mul(b, b) - Mul(Mul(Num(4), a), c))

\* Sphere::intersection once l is known
SphereL(self, ray, l) ==
    SphereABC(self, ray, dot(ray.dir, ray.dir), Mul(dot(ray.dir, l), Num(2)),
              dot(l, l) - Mul(self.radius, self.radius))

\* impl Intersectable for Sphere
SphereIntersection(self, ray) == SphereL(self, ray, VSub(ray.origin, self.center))

\* impl Intersectable for Primitive
PrimitiveIntersection(self, ray) ==
    CASE self.kind = "Sphere" -> SphereIntersection(self, ray)
      [] self.kind = "Triangle" -> TriangleIntersection(self, ray)
      [] self.kind = "Plane" -> PlaneIntersection(self, ray)

\* ------------------------------------------------------------------------
\* material.rs, object.rs, light.rs
\* ------------------------------------------------------------------------

Material(color, specular, lambert, ambient) ==
    [color |-> color, specular |-> specular, lambert |-> lambert, ambient |-> ambient]

Object(primitive, material) == [primitive |-> primitive, material |-> material]

\* impl Intersectable for Object
ObjectIntersection(self, ray) == PrimitiveIntersection(self.primitive, ray)

Light(pos, intensity) == [pos |-> pos, intensity |-> intensity]

\* ------------------------------------------------------------------------
\* ray.rs
\* ------------------------------------------------------------------------

\* Ray::new
RayNew(origin, direction) == [origin |-> origin, dir |-> normalize(direction)]

RayHit(color, intersection, normal) ==
    [color |-> color, intersection |-> intersection, normal |-> normal]

\* The closure of Ray::trace
RayHitOf(object, i) ==
    IF i.some THEN Some(RayHit(object.material.color, i.val.pos, i.val.normal))
    ELSE None

\* Ray::trace
RayTrace(ray, object) == RayHitOf(object, ObjectIntersection(object, ray))

\* ------------------------------------------------------------------------
\* lib.rs: the shading and trace engine
\* ------------------------------------------------------------------------

RECURSIVE VisibleForLight(_, _, _, _)
\* The inner loop of trace_to_lights: one entry per object the probe ray
\* does not hit, objects i..Len(world).
VisibleForLight(world, light, ray, i) ==
    IF i > Len(world) THEN <<>>
    ELSE (IF ~RayTrace(ray, world[i]).some THEN <<light>> ELSE <<>>)
         \o VisibleForLight(world, light, ray, i + 1)

\* trace_to_lights: let ray = Ray::new(pos, pos - light.pos)
ProbeRay(pos, light) == RayNew(pos, VSub(pos, light.pos))

RECURSIVE TraceToLightsFrom(_, _, _, _)
\* The outer loop of trace_to_lights, lights j..Len(lights).
TraceToLightsFrom(world, lights, pos, j) ==
    IF j > Len(lights) THEN <<>>
    ELSE VisibleForLight(world, lights[j], ProbeRay(pos, lights[j]), 1)
         \o TraceToLightsFrom(world, lights, pos, j + 1)

\* Raytracer::trace_to_lights
trace_to_lights(world, lights, pos) == TraceToLightsFrom(world, lights, pos, 1)

\* lambertian: the brightness given the contribution of the first visible light
Brightness(contribution) == IF contribution > 0 THEN contribution ELSE 0

\* Mutant of LambertianOf: the last visible light is used.
LambertianOfLast(material, intersection_pos, intersection_normal, visible) ==
    ColorScale(material.lambert,
        Min(IF Len(visible) > 0
            THEN Brightness(
                     Mul(dot(normalize(direction_to(intersection_pos,
                                                    visible[Len(visible)].pos)),
                             intersection_normal),
                         visible[Len(visible)].intensity))
            ELSE 0,
            Num(1)))

\* lambertian once the visible lights are known
LambertianOf(material, intersection_pos, intersection_normal, visible) ==
    ColorScale(material.lambert,
        Min(IF Len(visible) > 0
            THEN Brightness(
                     Mul(dot(normalize(direction_to(intersection_pos, visible[1].pos)),
                             intersection_normal),
                         visible[1].intensity))
            ELSE 0,
            Num(1)))

\* Raytracer::lambertian
lambertian(world, lights, material, intersection_pos, intersection_normal) ==
    IF ColorIsZero(material.lambert) THEN ColorZero
    ELSE LambertianOf(material, intersection_pos, intersection_normal,
                      trace_to_lights(world, lights, intersection_pos))

RECURSIVE trace(_, _, _, _)

\* specular: .map(|c| c * material.specular).unwrap_or(Color::zero())
SpecularOf(material, t) == IF t.some THEN ColorMul(t.val, material.specular) ELSE ColorZero

\* Raytracer::specular
specular(world, lights, material, intersection_pos, intersection_normal, depth) ==
    IF ColorIsZero(material.specular) THEN ColorZero
    ELSE SpecularOf(material,
             trace(world, lights,
                   RayNew(intersection_pos, reflect(intersection_pos, intersection_normal)),
                   depth - 1))

\* Raytracer::shading
shading(world, lights, material, intersection_pos, intersection_normal, depth) ==
    ColorAdd(ColorAdd(ColorMul(material.color,
                               lambertian(world, lights, material,
                                          intersection_pos, intersection_normal)),
                      specular(world, lights, material,
                               intersection_pos, intersection_normal, depth)),
             ColorMul(material.color, material.ambient))

\* A candidate of the object loop of trace: (dist, ray_hit, object)
Candidate(ray_hit, object) ==
    Some([dist |-> length_squared(ray_hit.intersection),
          ray_hit |-> ray_hit, object |-> object])

\* One iteration of the object loop of trace: the hit kept after object i
\* answered ray_hit
KeepNearest(hit, this) ==
    IF hit.some
    THEN (IF this.val.dist < hit.val.dist THEN this ELSE hit)
    ELSE this

NearestStep(hit, ray_hit, i) ==
    IF ray_hit.some THEN KeepNearest(hit, Candidate(ray_hit.val, i)) ELSE hit

RECURSIVE NearestHit(_, _, _, _)
\* The object loop of trace: hit is the nearest hit among objects 1..i-1.
NearestHit(world, ray, i, hit) ==
    IF i > Len(world) THEN hit
    ELSE NearestHit(world, ray, i + 1, NearestStep(hit, RayTrace(ray, world[i]), i))

\* trace once the object loop is done
TraceHit(world, lights, hit, depth) ==
    IF hit.some
    THEN Some(shading(world, lights, world[hit.val.object].material,
                      hit.val.ray_hit.intersection, hit.val.ray_hit.normal,
                      depth - 1))
    ELSE None

\* Mutant of trace: the depth test lets depth 0 through.
TraceDepthBelowZero(world, lights, ray, depth) ==
    IF depth < 0 THEN None
    ELSE TraceHit(world, lights, NearestHit(world, ray, 1, None), depth)

\* Raytracer::trace
trace(world, lights, ray, depth) ==
    IF depth <= 0 THEN None
    ELSE TraceHit(world, lights, NearestHit(world, ray, 1, None), depth)

\* One call of trace: its depth, the depth of the trace that made it (None
\* for the call of a pixel ray), the number of objects its loop examined and
\* the object it hit
TraceCall(depth, caller, examined, hit) ==
    [depth |-> depth, caller |-> caller, examined |-> examined, hit |-> hit]

RECURSIVE TraceCalls(_, _, _, _, _)

\* Mutant of SpecularCalls: the reflected ray is traced whatever the
\* specular coefficient.
SpecularCallsAlways(world, lights, material, pos, normal, depth, caller) ==
    TraceCalls(world, lights, RayNew(pos, reflect(pos, normal)), depth - 1, caller)

\* The trace calls made by Raytracer::specular at the intersection pos with
\* the surface normal, called from the trace of depth caller.val
SpecularCalls(world, lights, material, pos, normal, depth, caller) ==
    IF ColorIsZero(material.specular) THEN <<>>
    ELSE TraceCalls(world, lights, RayNew(pos, reflect(pos, normal)), depth - 1, caller)

\* The trace calls made by trace once the object loop is done: those of
\* shading, that is those of specular (lambertian makes none)
TraceHitCalls(world, lights, hit, depth) ==
    IF hit.some
    THEN SpecularCalls(world, lights, world[hit.val.object].material,
                       hit.val.ray_hit.intersection, hit.val.ray_hit.normal,
                       depth - 1, Some(depth))
    ELSE <<>>

\* The call of trace, where the object loop answered hit, followed by the
\* calls it makes
TraceLoopCalls(world, lights, hit, depth, caller) ==
    <<TraceCall(depth, caller, Len(world),
                IF hit.some THEN Some(hit.val.object) ELSE None)>>
    \o TraceHitCalls(world, lights, hit, depth)

\* Raytracer::trace: the call and the calls it makes, in the order they are
\* made
TraceCalls(world, lights, ray, depth, caller) ==
    IF depth <= 0 THEN <<TraceCall(depth, caller, 0, None)>>
    ELSE TraceLoopCalls(world, lights, NearestHit(world, ray, 1, None), depth, caller)

\* ------------------------------------------------------------------------
\* camera.rs
\* ------------------------------------------------------------------------

\* std::f64::consts::PI
PI == (3142 * Scale) \div 1000

\* a + a^3/3 + 2a^5/15 + 17a^7/315, a2 being a * a
TanSeries(a, a2) ==
    Mul(a, Num(1) + Mul(a2, Div(Num(1), Num(3))
                            + Mul(a2, Div(Num(2), Num(15))
                                      + Mul(a2, Div(Num(17), Num(315))))))

\* f64::tan, by its Taylor series; the camera calls it on angles below PI/4.
Tan(a) == TanSeries(a, Mul(a, a))

\* Viewport::new
ViewportNew(width, height) ==
    [aspect_ratio |-> Div(Num(width), Num(height)),
     pixels_x |-> width,
     pixels_y |-> height]

DirectionZero == "DirectionZero"

Ok(v) == [ok |-> TRUE, val |-> v]

Err(e) == [ok |-> FALSE, err |-> e]

\* Mutant of CameraOf: only the x component of the direction is tested.
CameraOfTestsX(width, height, position, view_dir, fov_rad) ==
    IF Mul(view_dir.x, view_dir.x) = 0 THEN Err(DirectionZero)
    ELSE Ok([position |-> position,
             rotation |-> RotationFrom(view_dir),
             viewport |-> ViewportNew(width, height),
             fov |-> fov_rad,
             distance |-> Div(Num(1), Tan(Div(fov_rad, Num(2))))])

\* Camera::new once fov_rad is known
CameraOf(width, height, position, view_dir, fov_rad) ==
    IF length_squared(view_dir) = 0 THEN Err(DirectionZero)
    ELSE Ok([position |-> position,
             rotation |-> RotationFrom(view_dir),
             viewport |-> ViewportNew(width, height),
             fov |-> fov_rad,
             distance |-> Div(Num(1), Tan(Div(fov_rad, Num(2))))])

\* Camera::new
CameraNew(width, height, position, view_dir, fov) ==
    CameraOf(width, height, position, view_dir, Div(Mul(Div(fov, Num(2)), PI), Num(180)))

\* Mutant of Camera::set_width: the height is taken from the wrong field.
CameraSetWidthWrongField(self, width) ==
    [self EXCEPT !.viewport = ViewportNew(width, self.viewport.pixels_x)]

\* Camera::set_width
CameraSetWidth(self, width) ==
    [self EXCEPT !.viewport = ViewportNew(width, self.viewport.pixels_y)]

\* Mutant of Camera::set_height: the arguments of Viewport::new are misplaced.
CameraSetHeightMisplaced(self, height) ==
    [self EXCEPT !.viewport = ViewportNew(height, self.viewport.pixels_y)]

\* Camera::set_height
CameraSetHeight(self, height) ==
    [self EXCEPT !.viewport = ViewportNew(self.viewport.pixels_x, height)]

\* ray_from_pixel once scale is known
RayFromPixelScaled(self, pixel_x, pixel_y, scale) ==
    RayNew(self.position,
           rotate(Vec3(Mul(Div(Mul(Num(2), pixel_x + Half), Num(self.viewport.pixels_x)),
                           scale),
                       Mul(Mul(Num(1) - Div(Mul(Num(2), pixel_y + Half),
                                            Num(self.viewport.pixels_y)),
                               scale),
                           Div(Num(1), self.viewport.aspect_ratio)),
                       self.distance),
                  self.rotation))

\* Camera::ray_from_pixel
ray_from_pixel(self, pixel_x, pixel_y) ==
    RayFromPixelScaled(self, pixel_x, pixel_y, Tan(Mul(self.fov, Half)))

\* Camera::pixels
pixels(self) == <<self.viewport.pixels_x, self.viewport.pixels_y>>

\* ------------------------------------------------------------------------
\* lib.rs: Raytracer, raycast and par_raycast
\* ------------------------------------------------------------------------

\* Raytracer::new
RaytracerNew(camera, background_color, recurse_depth) ==
    [camera |-> camera,
     background_color |-> background_color,
     recurse_depth |-> recurse_depth]

\* Raytracer::set_width
RaytracerSetWidth(self, width) ==
    [self EXCEPT !.camera = CameraSetWidth(self.camera, width)]

\* Raytracer::set_height
RaytracerSetHeight(self, height) ==
    [self EXCEPT !.camera = CameraSetHeight(self.camera, height)]

\* Raytracer::set_recurse_depth
RaytracerSetRecurseDepth(self, depth) == [self EXCEPT !.recurse_depth = depth]

\* Rust's integer division, which truncates toward zero
RustDiv(a, b) ==
    IF (a >= 0) = (b > 0) THEN Abs(a) \div Abs(b) ELSE 0 - (Abs(a) \div Abs(b))

\* (-px / 2..px / 2).enumerate(): the x of column col
ColX(px, col) == RustDiv(0 - px, 2) + col

\* Number of columns the loop over (-px / 2..px / 2) visits
NumCols(px) ==
    IF RustDiv(px, 2) > RustDiv(0 - px, 2) THEN RustDiv(px, 2) - RustDiv(0 - px, 2) ELSE 0

\* (-py..0).enumerate(): the y of row row
RowY(py, row) == (0 - py) + row

\* Iteration k = 1 .. py * NumCols(px) of the two nested pixel loops, in loop
\* order, with its row, col, x and y.
PixelAt(px, py, k) ==
    [row |-> (k - 1) \div NumCols(px),
     col |-> (k - 1) % NumCols(px),
     x |-> ColX(px, (k - 1) % NumCols(px)),
     y |-> RowY(py, (k - 1) \div NumCols(px))]

NumPixels(px, py) == py * NumCols(px)

\* vec![vec![self.background_color; px as usize]; py as usize]
NewImage(px, py, background_color) ==
    [r \in 1..py |-> [c \in 1..px |-> background_color]]

\* image[row][col] = color
ImageSet(image, row, col, color) ==
    [image EXCEPT ![row + 1] = [image[row + 1] EXCEPT ![col + 1] = color]]

\* (x as f64, -y as f64), the arguments of the call of ray_from_pixel
PixelArgs(p) == <<Num(p.x), Num(0 - p.y)>>

\* self.camera.ray_from_pixel(x as f64, -y as f64)
PixelRay(self, p) == ray_from_pixel(self.camera, PixelArgs(p)[1], PixelArgs(p)[2])

\* raycast: if let Some(hit) = ... { image[row][col] = hit; }
ImageWithHit(image, p, hit) ==
    IF hit.some THEN ImageSet(image, p.row, p.col, hit.val) ELSE image

\* raycast: the body of the pixel loops for iteration p
RaycastPixel(self, world, lights, p, image) ==
    ImageWithHit(image, p, trace(world, lights, PixelRay(self, p), self.recurse_depth))

RECURSIVE RaycastFrom(_, _, _, _, _)
\* The pixel loops of raycast from iteration k on.
RaycastFrom(self, world, lights, k, image) ==
    IF k > NumPixels(pixels(self.camera)[1], pixels(self.camera)[2]) THEN image
    ELSE RaycastFrom(self, world, lights, k + 1,
             RaycastPixel(self, world, lights,
                          PixelAt(pixels(self.camera)[1], pixels(self.camera)[2], k),
                          image))

\* Raytracer::raycast
raycast(self, world, lights) ==
    RaycastFrom(self, world, lights, 1,
                NewImage(pixels(self.camera)[1], pixels(self.camera)[2],
                         self.background_color))

\* ------------------------------------------------------------------------
\* Scenes: the values a scene description gives to Camera::new,
\* Raytracer::new and the render calls.
\* ------------------------------------------------------------------------

White == Color(Num(1), Num(1), Num(1))

Red == Color(Num(1), 0, 0)

Blue == Color(0, 0, Num(1))

Gray == Color(Half, Half, Half)

\* lambert and ambient add up to more than one
MatteRed == Material(Red, ColorZero, White, Color(8 * (Scale \div 10), 0, 0))

MatteBlue == Material(Blue, ColorZero, Gray, Gray)

Mirror == Material(White, Gray, Gray, Gray)

SceneOf(width, height, position, view_dir, background, depth, world, lights) ==
    [width |-> width, height |-> height, position |-> position,
     view_dir |-> view_dir, fov |-> Num(120), background |-> background,
     recurse_depth |-> depth, world |-> world, lights |-> lights]

Scenes ==
    << \* 1: a wall that every pixel ray hits
       SceneOf(2, 2, V(0, 0, 0), V(0, 0, 1), Gray, 1,
               << Object(PlaneNew(V(0, 0, 5), V(0, 0, -1)), MatteRed) >>,
               << Light(V(0, 5, 0), Num(2)) >>),
       \* 2: a sphere that only the lower pixel rays hit
       SceneOf(2, 1, V(0, 0, 0), V(0, 0, 1), Gray, 2,
               << Object(SphereNew(V(0, -1, 5), Num(1)), MatteBlue) >>,
               << Light(V(0, 5, 0), 0 - Num(1)), Light(V(0, 5, 0), Half) >>),
       \* 3: nothing to hit
       SceneOf(1, 2, V(0, 0, 0), V(0, 0, 1), Gray, 1, <<>>, <<>>),
       \* 4: camera away from the world origin, a mirror wall in front of a
       \*    matte wall, a floor
       SceneOf(2, 2, V(0, 0, -6), V(0, 0, 1), Blue, -1,
               << Object(PlaneNew(V(0, 0, -4), V(0, 0, -1)), Mirror),
                  Object(PlaneNew(V(0, 0, 1), V(0, 0, -1)), MatteRed),
                  Object(PlaneNew(V(0, -3, 0), V(0, 1, 0)), MatteBlue) >>,
               << Light(V(0, 5, -6), Num(1)) >>),
       \* 5: a mirror wall in front of the camera, a matte wall behind it
       SceneOf(2, 1, V(0, 0, 0), V(0, 0, 1), Gray, 3,
               << Object(PlaneNew(V(0, 0, 5), V(0, 0, -1)), Mirror),
                  Object(PlaneNew(V(0, 0, -3), V(0, 0, 1)), MatteRed) >>,
               << Light(V(0, 5, 0), Num(1)) >>),
       \* 6: the zero view direction
       SceneOf(2, 2, V(0, 0, 0), V(0, 0, 0), Gray, 1, <<>>, <<>>),
       \* 7: a non-zero view direction whose squared length underflows to zero
       SceneOf(2, 2, V(0, 0, 0), Vec3(0, 0, Tiny), Gray, 1, <<>>, <<>>) >>

\* ------------------------------------------------------------------------
\* The program: build the scene, apply the overrides, render.
\* ------------------------------------------------------------------------

\* Largest width and height the overrides set
MaxDim == 2

\* Largest recursion depth the override sets
MaxDepth == 1

\* Largest number of pool threads
MaxThreads == 2

VARIABLES
    scene,      \* index of the scene description in Scenes
    cam_res,    \* result of Camera::new: None before the call
    rt,         \* the Raytracer: None while there is none
    pc,         \* "start", "failed", "idle", "submit", "recv", "done"
    op,         \* the last operation called and its argument
    image,      \* the grid of the render in progress or just returned
    next_px,    \* par_raycast: the next iteration of the pixel loops
    queue,      \* par_raycast: jobs handed to the pool and not yet started
    workers,    \* par_raycast: the size of the pool and the jobs its threads run
    chan,       \* par_raycast: messages sent and not yet received
    senders,    \* par_raycast: number of live Sender handles of the channel
    received,   \* par_raycast: messages the receive loop has taken
    traced,     \* number of rays traced per slot <<row, col>> in this render
    last,       \* grid returned by the previous render of the unchanged scene
    cfg,        \* the width and height last given to Camera::new or a setter
    probe       \* a single call of one function: its arguments and its result

vars == <<scene, cam_res, rt, pc, op, image, next_px, queue, workers, chan,
          senders, received, traced, last, cfg, probe>>

\* The state of the program proper
program_vars == <<scene, cam_res, rt, pc, op, image, next_px, queue, workers,
                  chan, senders, received, traced, last, cfg>>

render_vars == <<image, next_px, queue, workers, chan, senders, received, traced>>

World == Scenes[scene].world

Lights == Scenes[scene].lights

Px == pixels(rt.camera)[1]

Py == pixels(rt.camera)[2]

Slots(px, py) == (0 .. py - 1) \X (0 .. px - 1)

Op(name, arg) == [name |-> name, arg |-> arg]

\* ThreadPool::new(num_threads): the threads are alike, so the pool is its
\* size and the set of jobs being run
Pool(num_threads) == [threads |-> num_threads, running |-> {}]

NoPool == Pool(0)

\* No function has been called on its own
NoCall == [op |-> "none"]

\* Before SceneBuilder::build
Unbuilt ==
    /\ cam_res = None
    /\ rt = None
    /\ pc = "start"
    /\ op = Op("none", 0)
    /\ image = <<>>
    /\ next_px = 0
    /\ queue = <<>>
    /\ workers = NoPool
    /\ chan = <<>>
    /\ senders = 0
    /\ received = 0
    /\ traced = <<>>
    /\ last = None
    /\ cfg = [width |-> Scenes[scene].width, height |-> Scenes[scene].height]
    /\ probe = NoCall

Init == scene \in 1 .. Len(Scenes) /\ Unbuilt

\* SceneBuilder::build: Camera::new, then Raytracer::new when it succeeded
BuildCamera(s) == CameraNew(s.width, s.height, s.position, s.view_dir, s.fov)

Build ==
    /\ pc = "start"
    /\ cam_res' = Some(BuildCamera(Scenes[scene]))
    /\ rt' = IF cam_res'.val.ok
             THEN RaytracerNew(cam_res'.val.val, Scenes[scene].background,
                               Scenes[scene].recurse_depth)
             ELSE None
    /\ pc' = IF cam_res'.val.ok THEN "idle" ELSE "failed"
    /\ op' = Op("new", 0)
    /\ UNCHANGED <<scene, probe, render_vars, last, cfg>>

SetWidth(width) ==
    /\ pc = "idle"
    /\ rt' = RaytracerSetWidth(rt, width)
    /\ op' = Op("set_width", width)
    /\ last' = None
    /\ cfg' = [cfg EXCEPT !.width = width]
    /\ UNCHANGED <<scene, probe, cam_res, pc, render_vars>>

SetHeight(height) ==
    /\ pc = "idle"
    /\ rt' = RaytracerSetHeight(rt, height)
    /\ op' = Op("set_height", height)
    /\ last' = None
    /\ cfg' = [cfg EXCEPT !.height = height]
    /\ UNCHANGED <<scene, probe, cam_res, pc, render_vars>>

SetRecurseDepth(depth) ==
    /\ pc = "idle"
    /\ rt' = RaytracerSetRecurseDepth(rt, depth)
    /\ op' = Op("set_recurse_depth", depth)
    /\ last' = None
    /\ UNCHANGED <<scene, probe, cam_res, pc, render_vars, cfg>>

\* Number of iterations of the pixel loops that visit slot s
TimesVisited(px, py, s) ==
    Cardinality({k \in 1 .. NumPixels(px, py) :
                   PixelAt(px, py, k).row = s[1] /\ PixelAt(px, py, k).col = s[2]})

\* Raytracer::raycast, called between two renders
Raycast ==
    /\ pc = "idle"
    /\ image' = raycast(rt, World, Lights)
    /\ traced' = [s \in Slots(Px, Py) |-> TimesVisited(Px, Py, s)]
    /\ pc' = "done"
    /\ op' = Op("raycast", 0)
    /\ UNCHANGED <<scene, probe, cam_res, rt, next_px, queue, workers, chan, senders,
                   received, last, cfg>>

\* par_raycast up to the pixel loops: the image, the pool, the channel
ParRaycast(num_threads) ==
    /\ pc = "idle"
    /\ image' = NewImage(Px, Py, rt.background_color)
    /\ workers' = Pool(num_threads)
    /\ queue' = <<>>
    /\ chan' = <<>>
    /\ senders' = 1
    /\ received' = 0
    /\ next_px' = 1
    /\ traced' = [s \in Slots(Px, Py) |-> 0]
    /\ pc' = "submit"
    /\ op' = Op("par_raycast", num_threads)
    /\ UNCHANGED <<scene, probe, cam_res, rt, last, cfg>>

\* The job pool.execute receives for iteration k: a clone of tx, the slot,
\* the ray and the depth
JobOf(self, p) ==
    [row |-> p.row, col |-> p.col, ray |-> PixelRay(self, p),
     depth |-> self.recurse_depth]

Job(self, k) == JobOf(self, PixelAt(pixels(self.camera)[1], pixels(self.camera)[2], k))

\* One iteration of the pixel loops of par_raycast, or their end
ParSubmit ==
    /\ pc = "submit"
    /\ IF next_px <= NumPixels(Px, Py)
       THEN /\ queue' = Append(queue, Job(rt, next_px))
            /\ senders' = senders + 1
            /\ next_px' = next_px + 1
            /\ pc' = pc
       ELSE /\ pc' = "recv"
            /\ UNCHANGED <<queue, senders, next_px>>
    /\ UNCHANGED <<scene, probe, cam_res, rt, op, image, workers, chan, received,
                   traced, last, cfg>>

\* An idle pool thread takes the oldest job
WorkerTake ==
    /\ Cardinality(workers.running) < workers.threads
    /\ queue # <<>>
    /\ workers' = [workers EXCEPT !.running = @ \cup {Head(queue)}]
    /\ queue' = Tail(queue)
    /\ UNCHANGED <<scene, probe, cam_res, rt, pc, op, image, next_px, chan, senders,
                   received, traced, last, cfg>>

\* Mutant of MessageOf: row and column are sent in the wrong order.
MessageOfSwapped(job, hit) ==
    IF hit.some THEN <<[row |-> job.col, col |-> job.row, color |-> hit.val]>>
    ELSE <<>>

\* tx.send((row, col, hit)) when the trace found a hit
MessageOf(job, hit) ==
    IF hit.some THEN <<[row |-> job.row, col |-> job.col, color |-> hit.val]>>
    ELSE <<>>

JobMessage(world, lights, job) ==
    MessageOf(job, trace(world, lights, job.ray, job.depth))

\* A pool thread runs its job to the end: trace, send, drop the clone of tx
WorkerRun(job) ==
    /\ job \in workers.running
    /\ chan' = chan \o JobMessage(World, Lights, job)
    /\ traced' = [traced EXCEPT ![<<job.row, job.col>>] = @ + 1]
    /\ senders' = senders - 1
    /\ workers' = [workers EXCEPT !.running = @ \ {job}]
    /\ UNCHANGED <<scene, probe, cam_res, rt, pc, op, image, next_px, queue, received,
                   last, cfg>>

\* Mutant of TakeCount: the loop stops one message early.
TakeCountShort(px, py) == px * py - 1

\* rx.iter().take((px * py) as usize): the number of messages it asks for
TakeCount(px, py) == px * py

\* The receive loop ends: the count is reached, or the channel is empty with
\* every Sender dropped
RecvLoopEnds == received >= TakeCount(Px, Py) \/ (chan = <<>> /\ senders = 0)

\* One iteration of the receive loop
ParRecv ==
    /\ pc = "recv"
    /\ ~RecvLoopEnds
    /\ chan # <<>>
    /\ image' = ImageSet(image, Head(chan).row, Head(chan).col, Head(chan).color)
    /\ chan' = Tail(chan)
    /\ received' = received + 1
    /\ UNCHANGED <<scene, probe, cam_res, rt, pc, op, next_px, queue, workers, senders,
                   traced, last, cfg>>

\* The receive loop is over and par_raycast is at its last line
ParRecvEnd ==
    /\ pc = "recv"
    /\ RecvLoopEnds
    /\ pc' = "done"
    /\ UNCHANGED <<scene, probe, cam_res, rt, op, render_vars, last, cfg>>

\* The render returns its image to the caller
Return ==
    /\ pc = "done"
    /\ pc' = "idle"
    /\ last' = Some(image)
    /\ image' = <<>>
    /\ next_px' = 0
    /\ queue' = <<>>
    /\ workers' = NoPool
    /\ chan' = <<>>
    /\ senders' = 0
    /\ received' = 0
    /\ traced' = <<>>
    /\ UNCHANGED <<scene, probe, cam_res, rt, op, cfg>>

Next ==
    \/ Build
    \/ \E width \in 0 .. MaxDim : SetWidth(width)
    \/ \E height \in 0 .. MaxDim : SetHeight(height)
    \/ \E depth \in 0 .. MaxDepth : SetRecurseDepth(depth)
    \/ Raycast
    \/ \E num_threads \in 1 .. MaxThreads : ParRaycast(num_threads)
    \/ ParSubmit
    \/ WorkerTake
    \/ \E job \in workers.running : WorkerRun(job)
    \/ ParRecv
    \/ ParRecvEnd
    \/ Return

Spec == Init /\ [][Next]_vars


\* ------------------------------------------------------------------------
\* material.rs: MaterialTemplate
\* ------------------------------------------------------------------------

\* enum MaterialTemplate
MaterialTemplate == {"Red", "Green", "Blue", "Bronze"}

\* Mutant of from_str: "bronze" is matched to the arm above it.
FromStrBronzeAsBlue(s) ==
    CASE s = "red" -> Ok("Red")
      [] s = "green" -> Ok("Green")
      [] s = "blue" -> Ok("Blue")
      [] s = "bronze" -> Ok("Blue")
      [] OTHER -> Err(<<"No material template named", s>>)

\* impl FromStr for MaterialTemplate
from_str(s) ==
    CASE s = "red" -> Ok("Red")
      [] s = "green" -> Ok("Green")
      [] s = "blue" -> Ok("Blue")
      [] s = "bronze" -> Ok("Bronze")
      [] OTHER -> Err(<<"No material template named", s>>)

\* MaterialTemplate::get_name_tuples
get_name_tuples ==
    << <<"red", "Red">>, <<"green", "Green">>, <<"blue", "Blue">>,
       <<"bronze", "Bronze">> >>

\* ------------------------------------------------------------------------
\* color.rs: ColorNames
\* ------------------------------------------------------------------------

\* macro color!: the pattern is ($r, $b, $g)
color_rbg(r, b, g) == Color(r, g, b)

\* macro color_255!: the pattern is ($r, $b, $g) and each component is
\* divided as a u8 before it is cast to f64
color_255(r, b, g) == Color(Num(r \div 255), Num(g \div 255), Num(b \div 255))

\* impl From<ColorNames> for Color
ColorFromName(value) ==
    CASE value = "White" -> color_rbg(Num(1), Num(1), Num(1))
      [] value = "Black" -> color_rbg(0, 0, 0)
      [] value = "Red" -> color_rbg(Num(1), 0, 0)
      [] value = "Green" -> color_rbg(0, Num(1), 0)
      [] value = "Blue" -> color_rbg(0, 0, Num(1))
      [] value = "Yellow" -> color_rbg(Num(1), Num(1), 0)
      [] value = "Cyan" -> color_rbg(0, Num(1), Num(1))
      [] value = "Magenta" -> color_rbg(Num(1), 0, Num(1))
      [] value = "Gold" -> color_255(255, 215, 0)
      [] value = "GoldenYellow" -> color_255(255, 223, 0)
      [] value = "MetallicGold" -> color_255(212, 175, 55)
      [] value = "OldGold" -> color_255(207, 181, 59)
      [] value = "GoldenPoppy" -> color_255(252, 194, 0)

\* impl FromStr for ColorNames
ColorNamesFromStr(s) ==
    CASE s = "white" -> Ok("White")
      [] s = "black" -> Ok("Black")
      [] s = "red" -> Ok("Red")
      [] s = "green" -> Ok("Green")
      [] s = "blue" -> Ok("Blue")
      [] s = "yellow" -> Ok("Yellow")
      [] s = "cyan" -> Ok("Cyan")
      [] s = "magenta" -> Ok("Magenta")
      [] s = "gold" -> Ok("Gold")
      [] s = "golden_yellow" -> Ok("GoldenYellow")
      [] s = "metallic_gold" -> Ok("MetallicGold")
      [] s = "old_gold" -> Ok("OldGold")
      [] s = "golden_poppy" -> Ok("GoldenPoppy")
      [] OTHER -> Err(<<"No color named", s>>)

\* ------------------------------------------------------------------------
\* scene-parser: lit.rs, options.rs, scene_object.rs, scene_builder.rs
\* A block is <<name, options>>, options a sequence of <<key, literal>>.
\* Errors are kept without their source offsets.
\* ------------------------------------------------------------------------

DEFAULT_FOV == 90

\* enum Lit: t is the variant.  A String holds its token with the quotes,
\* a Double its value, an Int its i32, a Tuple a sequence of literals and
\* an Object a sequence of <<key, literal>>
Lit(t, v) == [t |-> t, v |-> v]

\* enum SceneParseError
ParseError(error, name) == [error |-> error, name |-> name]

\* str::to_lowercase, on the names that have an upper-case letter
to_lowercase(s) ==
    CASE s = "Camera" -> "camera"
      [] s = "Light" -> "light"
      [] s = "Sphere" -> "sphere"
      [] s = "Global" -> "global"
      [] s = "Cube" -> "cube"
      [] s = "R" -> "r"
      [] s = "POS" -> "pos"
      [] OTHER -> s

\* s[1..s.len() - 1] of SpannedLit::get_string, on the tokens in use
Unquoted(s) ==
    CASE s = "\"red\"" -> "red"
      [] s = "\"bronze\"" -> "bronze"
      [] s = "\"metal\"" -> "metal"
      [] OTHER -> ""

\* expr?.f(): the error of r, or f applied to its value
AndThen(r, f(_)) == IF r.ok THEN f(r.val) ELSE r

\* A chain of expr? steps: the first error of rs, or Ok(v)
Try(rs, v) ==
    IF \A i \in DOMAIN rs : rs[i].ok THEN Ok(v)
    ELSE rs[CHOOSE i \in DOMAIN rs : ~rs[i].ok /\ \A j \in 1 .. i - 1 : rs[j].ok]

\* Mutant of Options::build: the keys are inserted as they are written.
OptionsBuildAsWritten(options) ==
    IF \E i \in DOMAIN options : \E j \in 1 .. i - 1 : options[j][1] = options[i][1]
    THEN Err(ParseError("DuplicateKey",
             options[CHOOSE i \in DOMAIN options :
                        /\ \E j \in 1 .. i - 1 : options[j][1] = options[i][1]
                        /\ \A k \in 1 .. i - 1 : \A j \in 1 .. k - 1 :
                               options[j][1] # options[k][1]][1]))
    ELSE Ok(options)

\* Options::build: the map as the sequence of <<lower-case key, literal>>
OptionsBuild(options) ==
    IF \E i \in DOMAIN options : \E j \in 1 .. i - 1 :
           to_lowercase(options[j][1]) = to_lowercase(options[i][1])
    THEN Err(ParseError("DuplicateKey",
             options[CHOOSE i \in DOMAIN options :
                        /\ \E j \in 1 .. i - 1 :
                               to_lowercase(options[j][1]) = to_lowercase(options[i][1])
                        /\ \A k \in 1 .. i - 1 : \A j \in 1 .. k - 1 :
                               to_lowercase(options[j][1]) # to_lowercase(options[k][1])][1]))
    ELSE Ok([i \in DOMAIN options |-> <<to_lowercase(options[i][1]), options[i][2]>>])

\* Options::get (the removal is the set of names check_empty is given)
OptionsGet(self, name) ==
    IF \E i \in DOMAIN self : self[i][1] = name
    THEN Ok(self[CHOOSE i \in DOMAIN self : self[i][1] = name][2])
    ELSE Err(ParseError("MissingOption", name))

\* Options::check_empty, after get was called for the names of removed
check_empty(self, removed) ==
    IF \A i \in DOMAIN self : self[i][1] \in removed THEN Ok("()")
    ELSE Err(ParseError("UnknownOptions",
                        {self[i][1] : i \in {k \in DOMAIN self : self[k][1] \notin removed}}))

\* SpannedLit::get_string
get_string(lit) ==
    IF lit.t = "String" THEN Ok(Unquoted(lit.v)) ELSE Err(ParseError("WrongType", "Str"))

\* SpannedLit::get_double
get_double(lit) ==
    CASE lit.t = "Double" -> Ok(lit.v)
      [] lit.t = "Int" -> Ok(Num(lit.v))
      [] OTHER -> Err(ParseError("WrongType", "f64"))

\* SpannedLit::get_u32
get_u32(lit) ==
    IF lit.t = "Int"
    THEN (IF lit.v >= 0 THEN Ok(lit.v) ELSE Err(ParseError("Custom", "TryFromIntError")))
    ELSE Err(ParseError("WrongType", "u32"))

\* SpannedLit::get_u8
get_u8(lit) ==
    IF lit.t = "Int"
    THEN (IF lit.v >= 0 /\ lit.v <= 255 THEN Ok(lit.v)
          ELSE Err(ParseError("Custom", "TryFromIntError")))
    ELSE Err(ParseError("WrongType", "u8"))

\* SpannedLit::get_vec3
get_vec3(lit) ==
    IF lit.t = "Tuple" /\ Len(lit.v) = 3
    THEN Try(<<get_double(lit.v[1]), get_double(lit.v[2]), get_double(lit.v[3])>>,
             Vec3(get_double(lit.v[1]).val, get_double(lit.v[2]).val,
                  get_double(lit.v[3]).val))
    ELSE Err(ParseError("WrongType", "( f64, f64, f64 )"))

\* Color::new
ColorNew(red, green, blue) ==
    Color(Div(Num(red), Num(255)), Div(Num(green), Num(255)), Div(Num(blue), Num(255)))

\* SpannedLit::get_color
get_color(lit) ==
    CASE lit.t = "String" ->
             IF ColorNamesFromStr(lit.v).ok
             THEN Ok(ColorFromName(ColorNamesFromStr(lit.v).val))
             ELSE Err(ParseError("UnknownColor", lit.v))
      [] lit.t = "Tuple" /\ Len(lit.v) = 3 ->
             Try(<<get_u8(lit.v[1]), get_u8(lit.v[2]), get_u8(lit.v[3])>>,
                 ColorNew(get_u8(lit.v[1]).val, get_u8(lit.v[2]).val, get_u8(lit.v[3]).val))
      [] OTHER -> Err(ParseError("WrongType", "( u8, u8, u8 )"))

\* impl TryFrom<SpannedLit> for Options
OptionsTryFrom(value) ==
    IF value.t = "Object" THEN OptionsBuild(value.v) ELSE Err(ParseError("WrongType", "{}"))

\* MaterialTemplate::get_material
get_material(self, color) ==
    CASE self = "Red" ->
             Material(color, Color((225 * Scale) \div 10000, (225 * Scale) \div 10000,
                                   (225 * Scale) \div 10000),
                      Color(Num(1), 0, 0), ColorZero)
      [] self = "Green" ->
             Material(color, Color((225 * Scale) \div 10000, (225 * Scale) \div 10000,
                                   (225 * Scale) \div 10000),
                      Color(0, Num(1), 0), ColorZero)
      [] self = "Blue" ->
             Material(color, Color((225 * Scale) \div 10000, (225 * Scale) \div 10000,
                                   (225 * Scale) \div 10000),
                      Color(0, 0, Num(1)), ColorZero)
      [] self = "Bronze" ->
             Material(color, Color((393548 * Scale) \div 1000000,
                                   (271906 * Scale) \div 1000000,
                                   (166721 * Scale) \div 1000000),
                      Color((714 * Scale) \div 1000, (4284 * Scale) \div 10000,
                            (18144 * Scale) \div 100000),
                      Color((2125 * Scale) \div 10000, (1275 * Scale) \div 10000,
                            (54 * Scale) \div 1000))

\* struct GlobalOptions and its Default
GlobalOptionsDefault == [recurse_depth |-> 5]

\* SceneObject::build_camera
build_camera(options) ==
    LET rs == <<AndThen(OptionsGet(options, "width"), get_u32),
                AndThen(OptionsGet(options, "height"), get_u32),
                AndThen(OptionsGet(options, "pos"), get_vec3),
                AndThen(OptionsGet(options, "dir"), get_vec3),
                IF OptionsGet(options, "fov").ok
                THEN get_double(OptionsGet(options, "fov").val)
                ELSE Ok(Num(DEFAULT_FOV)),
                check_empty(options, {"width", "height", "pos", "dir", "fov"})>>
        camera == CameraNew(rs[1].val, rs[2].val, rs[3].val, rs[4].val, rs[5].val)
    IN  IF ~Try(rs, "").ok THEN Try(rs, "")
        ELSE IF camera.ok THEN camera
        ELSE Err(ParseError("Custom", camera.err))

\* SceneObject::build_primitive; the caller has taken "material" out
build_primitive(ident, options) ==
    CASE to_lowercase(ident) = "sphere" ->
             Try(<<AndThen(OptionsGet(options, "pos"), get_vec3),
                   AndThen(OptionsGet(options, "r"), get_double),
                   check_empty(options, {"material", "pos", "r"})>>,
                 SphereNew(AndThen(OptionsGet(options, "pos"), get_vec3).val,
                           AndThen(OptionsGet(options, "r"), get_double).val))
      [] to_lowercase(ident) = "triangle" ->
             Try(<<AndThen(OptionsGet(options, "t1"), get_vec3),
                   AndThen(OptionsGet(options, "t2"), get_vec3),
                   AndThen(OptionsGet(options, "t3"), get_vec3),
                   check_empty(options, {"material", "t1", "t2", "t3"})>>,
                 TriangleNew(AndThen(OptionsGet(options, "t1"), get_vec3).val,
                             AndThen(OptionsGet(options, "t2"), get_vec3).val,
                             AndThen(OptionsGet(options, "t3"), get_vec3).val))
      [] to_lowercase(ident) = "plane" ->
             Try(<<AndThen(OptionsGet(options, "point"), get_vec3),
                   AndThen(OptionsGet(options, "normal"), get_vec3),
                   check_empty(options, {"material", "point", "normal"})>>,
                 PlaneNew(AndThen(OptionsGet(options, "point"), get_vec3).val,
                          AndThen(OptionsGet(options, "normal"), get_vec3).val))
      [] OTHER -> Err(ParseError("UnknownObject", ident))

\* Mutant of build_material: a material without a color is black.
BuildMaterialBlack(options) ==
    IF ~OptionsGet(options, "color").ok
    THEN Ok(Material(ColorZero, ColorZero, ColorZero, ColorZero))
    ELSE Try(<<AndThen(OptionsGet(options, "color"), get_color)>>,
             Material(AndThen(OptionsGet(options, "color"), get_color).val,
                      ColorZero, ColorZero, ColorZero))

\* SceneObject::build_material
build_material(options) ==
    LET color == AndThen(OptionsGet(options, "color"), get_color)
        lambert == AndThen(OptionsGet(options, "lambert"), get_color)
        specular_ == AndThen(OptionsGet(options, "specular"), get_color)
        ambient == AndThen(OptionsGet(options, "ambient"), get_color)
        template == OptionsGet(options, "template")
        name == get_string(template.val)
        empty == check_empty(options,
                             {"color", "lambert", "specular", "ambient", "template"})
    IN  IF ~color.ok THEN color
        ELSE IF template.ok
        THEN IF ~name.ok THEN name
             ELSE IF ~from_str(name.val).ok
             THEN Err(ParseError("UnknownMaterial", name.val))
             ELSE Try(<<empty>>,
                      [get_material(from_str(name.val).val, color.val) EXCEPT
                          !.lambert = IF lambert.ok THEN lambert.val ELSE @,
                          !.specular = IF specular_.ok THEN specular_.val ELSE @,
                          !.ambient = IF ambient.ok THEN ambient.val ELSE @])
        ELSE Try(<<lambert, specular_, ambient, empty>>,
                 Material(color.val, specular_.val, lambert.val, ambient.val))

\* SceneObject::build_light
build_light(options) ==
    Try(<<AndThen(OptionsGet(options, "pos"), get_vec3),
          AndThen(OptionsGet(options, "intensity"), get_double),
          check_empty(options, {"pos", "intensity"})>>,
        Light(AndThen(OptionsGet(options, "pos"), get_vec3).val,
              AndThen(OptionsGet(options, "intensity"), get_double).val))

\* SceneObject::build_global
build_global(options) ==
    Try(<<IF OptionsGet(options, "recurse_depth").ok
          THEN get_u32(OptionsGet(options, "recurse_depth").val)
          ELSE Ok(GlobalOptionsDefault.recurse_depth),
          check_empty(options, {"recurse_depth"})>>,
        [recurse_depth |->
            IF OptionsGet(options, "recurse_depth").ok
            THEN get_u32(OptionsGet(options, "recurse_depth").val).val
            ELSE GlobalOptionsDefault.recurse_depth])

\* enum SceneObject
SceneObject(kind, val) == [kind |-> kind, val |-> val]

\* SceneObject::new, for a primitive: the options are built
SceneObjectPrimitive(ident, options) ==
    LET material == OptionsGet(options, "material")
        prim == build_primitive(ident, options)
        material_options == OptionsTryFrom(material.val)
        built == build_material(material_options.val)
    IN  IF ~prim.ok THEN prim
        ELSE IF ~material.ok THEN material
        ELSE IF ~material_options.ok THEN material_options
        ELSE IF ~built.ok THEN built
        ELSE Ok(SceneObject("Object", Object(prim.val, built.val)))

\* SceneObject::new
SceneObjectNew(ident, options) ==
    IF ~OptionsBuild(options).ok THEN OptionsBuild(options)
    ELSE CASE to_lowercase(ident) = "global" ->
                  AndThen(build_global(OptionsBuild(options).val),
                          LAMBDA o : Ok(SceneObject("GlobalOptions", o)))
           [] to_lowercase(ident) = "camera" ->
                  AndThen(build_camera(OptionsBuild(options).val),
                          LAMBDA c : Ok(SceneObject("Camera", c)))
           [] to_lowercase(ident) = "light" ->
                  AndThen(build_light(OptionsBuild(options).val),
                          LAMBDA l : Ok(SceneObject("Light", l)))
           [] OTHER -> SceneObjectPrimitive(ident, OptionsBuild(options).val)

\* SceneBuilder::build, once the loop over scene_objects is done
SceneBuilderResult(cameras, objects, lights, errors, options) ==
    IF errors # <<>> THEN Err(errors)
    ELSE Ok(<<objects, lights,
              RaytracerNew(cameras[Len(cameras)], ColorNew(0, 0, 0),
                           options.recurse_depth)>>)

\* The scene objects of kind kind among the results, in order
OfKind(scene_objects, kind) ==
    [i \in DOMAIN SelectSeq(scene_objects, LAMBDA r : r.ok /\ r.val.kind = kind) |->
        SelectSeq(scene_objects, LAMBDA r : r.ok /\ r.val.kind = kind)[i].val.val]

\* Mutant of SceneBuilder::build: the cameras are counted before the loop
\* collects the errors of the objects.
SceneBuilderCountFirst(scene_objects) ==
    SceneBuilderResult(
        OfKind(scene_objects, "Camera"),
        OfKind(scene_objects, "Object"),
        OfKind(scene_objects, "Light"),
        (IF Len(OfKind(scene_objects, "Camera")) # 1
         THEN <<ParseError("Custom",
                           <<"There must be exactly one camera in a scene, found",
                             Len(OfKind(scene_objects, "Camera"))>>)>>
         ELSE <<>>)
        \o [i \in DOMAIN SelectSeq(scene_objects, LAMBDA r : ~r.ok) |->
               SelectSeq(scene_objects, LAMBDA r : ~r.ok)[i].err],
        GlobalOptionsDefault)

\* SceneBuilder::build
SceneBuilderBuild(scene_objects) ==
    SceneBuilderResult(
        OfKind(scene_objects, "Camera"),
        OfKind(scene_objects, "Object"),
        OfKind(scene_objects, "Light"),
        [i \in DOMAIN SelectSeq(scene_objects, LAMBDA r : ~r.ok) |->
            SelectSeq(scene_objects, LAMBDA r : ~r.ok)[i].err]
        \o (IF Len(OfKind(scene_objects, "Camera")) # 1
            THEN <<ParseError("Custom",
                              <<"There must be exactly one camera in a scene, found",
                                Len(OfKind(scene_objects, "Camera"))>>)>>
            ELSE <<>>),
        IF OfKind(scene_objects, "GlobalOptions") = <<>> THEN GlobalOptionsDefault
        ELSE OfKind(scene_objects, "GlobalOptions")[Len(OfKind(scene_objects, "GlobalOptions"))])

\* ------------------------------------------------------------------------
\* raytracer/src/camera.rs: the viewport that stores the pixel spacing
\* ------------------------------------------------------------------------

\* Viewport::new (the fov is not used)
SpacedViewportNew(width, height) ==
    [aspect_ratio |-> Div(Num(width), Num(height)),
     pixels_x |-> width,
     pixels_y |-> height,
     pixel_width |-> Div(Num(1), Num(width)),
     pixel_height |-> Div(Div(Num(1), Num(height)), Div(Num(width), Num(height)))]

\* Viewport::set_width
SpacedViewportSetWidth(self, width) ==
    [self EXCEPT !.pixels_x = width,
                 !.pixel_width = Div(Num(1), Num(width)),
                 !.aspect_ratio = Div(Num(width), Num(self.pixels_y))]

\* Viewport::set_height
SpacedViewportSetHeight(self, height) ==
    [self EXCEPT !.pixels_y = height,
                 !.pixel_width = Div(Num(1), Num(height)),
                 !.aspect_ratio = Div(Num(self.pixels_x), Num(height))]

RECURSIVE SpacedViewportAfter(_, _, _)
\* The viewport after the setter calls i .. Len(calls) of calls
SpacedViewportAfter(self, calls, i) ==
    IF i > Len(calls) THEN self
    ELSE SpacedViewportAfter(
             IF calls[i][1] = "set_width" THEN SpacedViewportSetWidth(self, calls[i][2])
             ELSE SpacedViewportSetHeight(self, calls[i][2]),
             calls, i + 1)

\* ------------------------------------------------------------------------
\* src/color.rs and src/main.rs: the colour with channels in [0, 255]
\* ------------------------------------------------------------------------

\* Color::new(red, green, blue) of u8 channels
Color255New(red, green, blue) == Color(Num(red), Num(green), Num(blue))

\* BLACK_COLOR
BLACK_COLOR == Color(0, 0, 0)

\* Color::scale: (self.r * s).min(255.0) on every channel
Color255Scale(self, s) ==
    Color(Min(Mul(self.r, s), Num(255)),
          Min(Mul(self.g, s), Num(255)),
          Min(Mul(self.b, s), Num(255)))

\* Color::add: self.r += other.r on every channel
Color255Add(self, other) ==
    Color(self.r + other.r, self.g + other.g, self.b + other.b)

\* The debug_assert!s of From<Color> for [u8; 3]
Color255Asserted(value) ==
    /\ 0 <= value.r /\ value.r <= Num(255)
    /\ 0 <= value.g /\ value.g <= Num(255)
    /\ 0 <= value.b /\ value.b <= Num(255)

\* Raytracer::specular of src/main.rs, reflected being what the nested trace
\* returned
Specular255(object, reflected) ==
    IF object.specular <= 0 THEN BLACK_COLOR
    ELSE IF reflected.some
         THEN Color255Add(BLACK_COLOR, Color255Scale(reflected.val, object.specular))
         ELSE BLACK_COLOR

\* Raytracer::shading of src/main.rs, brightness being what lambertian
\* returned
Shading255(object, brightness, reflected) ==
    Color255Add(Color255Add(Color255Scale(object.color, brightness),
                            Specular255(object, reflected)),
                Color255Scale(object.color, object.ambient))

\* ------------------------------------------------------------------------
\* Single calls: one function applied to arguments drawn from small sets.
\* ------------------------------------------------------------------------

\* Largest coordinate of the points and centers drawn
MaxCoord == 2

\* The worlds of the scenes
UnitWorlds == {Scenes[i].world : i \in 1 .. 5}

\* Lists of one or two lights at distinct positions
UnitLights ==
    {<<Light(p, i)>> :
        p \in {V(0, 5, 0), V(0, -5, 0), V(0, 0, -5)}, i \in {Num(1), 0 - Num(1)}}
    \cup {<<Light(V(0, 5, 0), i), Light(q, Num(1))>> :
             q \in {V(0, -5, 0), V(0, 0, -5)}, i \in {Num(1), 0 - Num(1)}}
    \cup {<<Light(V(0, 0, -5), i), Light(V(0, 5, 0), Num(1))>> :
             i \in {Num(1), 0 - Num(1)}}

UnitPoints == {Vec3(0, 0, Num(z)) : z \in 0 .. MaxCoord} \cup {V(1, -3, 1)}

\* Planes and triangles across the z axis, spheres centered on it
UnitPrimitives ==
    {PlaneNew(Vec3(0, 0, Num(k)), V(0, 0, -1)) : k \in 0 - MaxCoord .. MaxCoord}
    \cup {TriangleNew(Vec3(0 - Num(2), 0 - Num(2), Num(k)),
                      Vec3(Num(2), 0 - Num(2), Num(k)),
                      Vec3(0, Num(2), Num(k))) : k \in 0 - MaxCoord .. MaxCoord}
    \cup {SphereNew(Vec3(0, 0, Num(k)), Num(r)) :
             k \in 0 - MaxCoord .. MaxCoord, r \in 1 .. 2}

\* Rays from points of the z axis
UnitRays ==
    {RayNew(Vec3(0, 0, Num(o)), d) :
        o \in 0 - MaxCoord .. MaxCoord,
        d \in {V(0, 0, 1), V(0, 0, -1), V(1, 0, 0), V(0, 1, 0), V(1, 1, 0),
               V(1, 0, 1), V(0, -1, -1)}}

UnitInit == scene = 1 /\ Unbuilt

\* Raytracer::trace_to_lights(world, lights, pos)
CallTraceToLights(world, lights, pos) ==
    /\ probe = NoCall
    /\ probe' = [op |-> "trace_to_lights", world |-> world, lights |-> lights,
                 pos |-> pos, out |-> trace_to_lights(world, lights, pos)]
    /\ UNCHANGED program_vars

\* Raytracer::lambertian(world, lights, material, pos, normal)
CallLambertian(world, lights, material, pos, normal) ==
    /\ probe = NoCall
    /\ probe' = [op |-> "lambertian", world |-> world, lights |-> lights,
                 material |-> material, pos |-> pos, normal |-> normal,
                 out |-> lambertian(world, lights, material, pos, normal)]
    /\ UNCHANGED program_vars

\* Raytracer::trace(world, lights, ray, depth)
CallTrace(world, lights, ray, depth) ==
    /\ probe = NoCall
    /\ probe' = [op |-> "trace", world |-> world, lights |-> lights, ray |-> ray,
                 depth |-> depth, out |-> trace(world, lights, ray, depth)]
    /\ UNCHANGED program_vars

\* Primitive::intersection(ray)
CallIntersection(primitive, ray) ==
    /\ probe = NoCall
    /\ probe' = [op |-> "intersection", primitive |-> primitive, ray |-> ray,
                 out |-> PrimitiveIntersection(primitive, ray)]
    /\ UNCHANGED program_vars

\* s.parse::<MaterialTemplate>()
CallFromStr(s) ==
    /\ probe = NoCall
    /\ probe' = [op |-> "from_str", s |-> s, out |-> from_str(s)]
    /\ UNCHANGED program_vars

\* Color::from(s.parse::<ColorNames>()?)
CallColorFromStr(s) ==
    /\ probe = NoCall
    /\ probe' = [op |-> "color_from_str", s |-> s,
                 out |-> IF ColorNamesFromStr(s).ok
                         THEN Ok(ColorFromName(ColorNamesFromStr(s).val))
                         ELSE ColorNamesFromStr(s)]
    /\ UNCHANGED program_vars

MaxBlocks == 3

\* The blocks scenes are made of: those of the tests of the parser
\* (test_parse, multiple_keys_error, test_missing_key) and variations
Blocks ==
    << <<"Camera", << <<"width", Lit("Int", 512)>>, <<"height", Lit("Int", 512)>>,
                      <<"pos", Lit("Tuple", <<Lit("Double", Num(1)), Lit("Double", Num(2)),
                                              Lit("Double", Num(3))>>)>>,
                      <<"dir", Lit("Tuple", <<Lit("Double", 0), Lit("Double", 0),
                                              Lit("Int", 1)>>)>> >> >>,
       <<"Light", << <<"pos", Lit("Tuple", <<Lit("Int", 1), Lit("Int", 1), Lit("Int", 1)>>)>>,
                     <<"intensity", Lit("Int", 1)>> >> >>,
       <<"Sphere", << <<"pos", Lit("Tuple", <<Lit("Double", Num(1)), Lit("Double", Num(2)),
                                              Lit("Double", Num(3))>>)>>,
                      <<"r", Lit("Double", Num(1) \div 10)>>,
                      <<"material", Lit("Object",
                          << <<"color", Lit("Tuple", <<Lit("Int", 255), Lit("Int", 0),
                                                       Lit("Int", 0)>>)>>,
                             <<"template", Lit("String", "\"bronze\"")>>,
                             <<"ambient", Lit("Double", Num(1) \div 10)>> >>)>> >> >>,
       <<"Sphere", << <<"pos", Lit("Tuple", <<Lit("Double", Num(1)), Lit("Double", Num(2)),
                                              Lit("Double", Num(3))>>)>>,
                      <<"r", Lit("Double", Num(1) \div 10)>>,
                      <<"material", Lit("Object",
                          << <<"color", Lit("Tuple", <<Lit("Int", 255), Lit("Int", 0),
                                                       Lit("Int", 0)>>)>>,
                             <<"template", Lit("String", "\"metal\"")>>,
                             <<"ambient", Lit("Double", Num(1) \div 10)>> >>)>> >> >>,
       <<"Sphere", << <<"pos", Lit("Tuple", <<Lit("Double", Num(1)), Lit("Double", Num(2)),
                                              Lit("Double", Num(3))>>)>>,
                      <<"r", Lit("Double", Num(1) \div 10)>>,
                      <<"material", Lit("Object",
                          << <<"color", Lit("Tuple", <<Lit("Int", 255), Lit("Int", 0),
                                                       Lit("Int", 0)>>)>>,
                             <<"ambient", Lit("Double", Num(1) \div 10)>>,
                             <<"lambert", Lit("Double", Num(1))>>,
                             <<"specular", Lit("Double", Num(1) \div 10)>> >>)>> >> >>,
       <<"Sphere", << <<"pos", Lit("Tuple", <<Lit("Int", 1), Lit("Int", 1), Lit("Int", 1)>>)>>,
                      <<"r", Lit("Int", 1)>>,
                      <<"material", Lit("Object", <<>>)>> >> >>,
       <<"Camera", << <<"pos", Lit("Tuple", <<Lit("Int", 1), Lit("Int", 1), Lit("Int", 1)>>)>>,
                      <<"dir", Lit("Tuple", <<Lit("Int", 1), Lit("Int", 1), Lit("Int", 1)>>)>>,
                      <<"pos", Lit("Tuple", <<Lit("Int", 1), Lit("Int", 1), Lit("Int", 1)>>)>> >> >>,
       <<"Sphere", << <<"pos", Lit("Tuple", <<Lit("Int", 1), Lit("Int", 1), Lit("Int", 1)>>)>>,
                      <<"r", Lit("Int", 1)>>,
                      <<"material", Lit("Object",
                          << <<"color", Lit("Tuple", <<Lit("Int", 0), Lit("Int", 0),
                                                       Lit("Int", 255)>>)>>,
                             <<"template", Lit("String", "\"red\"")>> >>)>>,
                      <<"R", Lit("Int", 1)>> >> >>,
       <<"sphere", << <<"pos", Lit("Tuple", <<Lit("Int", 0), Lit("Int", 0), Lit("Int", 5)>>)>>,
                      <<"r", Lit("Int", 1)>>,
                      <<"material", Lit("Object",
                          << <<"color", Lit("Tuple", <<Lit("Int", 255), Lit("Int", 0),
                                                       Lit("Int", 0)>>)>>,
                             <<"ambient", Lit("Tuple", <<Lit("Int", 25), Lit("Int", 25),
                                                         Lit("Int", 25)>>)>>,
                             <<"lambert", Lit("Tuple", <<Lit("Int", 255), Lit("Int", 255),
                                                         Lit("Int", 255)>>)>>,
                             <<"specular", Lit("Tuple", <<Lit("Int", 0), Lit("Int", 0),
                                                          Lit("Int", 0)>>)>> >>)>> >> >>,
       <<"Cube", << <<"pos", Lit("Tuple", <<Lit("Int", 1), Lit("Int", 1), Lit("Int", 1)>>)>> >> >>,
       <<"Global", << <<"recurse_depth", Lit("Int", 3)>> >> >>,
       <<"Sphere", << <<"pos", Lit("Tuple", <<Lit("Int", 1), Lit("Int", 1), Lit("Int", 1)>>)>>,
                      <<"r", Lit("Int", 1)>>,
                      <<"material", Lit("Object",
                          << <<"color", Lit("Tuple", <<Lit("Int", 255), Lit("Int", 0),
                                                       Lit("Int", 0)>>)>>,
                             <<"ambient", Lit("Tuple", <<Lit("Int", 25), Lit("Int", 25),
                                                         Lit("Int", 25)>>)>>,
                             <<"lambert", Lit("Tuple", <<Lit("Int", 255), Lit("Int", 255),
                                                         Lit("Int", 255)>>)>> >>)>> >> >>,
       <<"Light", << <<"pos", Lit("Tuple", <<Lit("Int", 1), Lit("Int", 1), Lit("Int", 1)>>)>>,
                     <<"intensity", Lit("Double", Num(1) \div 2)>>,
                     <<"color", Lit("String", "\"red\"")>> >> >> >>

\* parse_string on the text made of the blocks numbered in source: the
\* grammar hands every block to SceneObject::new and the list of results,
\* scene_objects, to SceneBuilder::build
CallParse(source) ==
    /\ probe = NoCall
    /\ probe' = [op |-> "parse", source |-> source,
                 scene_objects |->
                     [i \in DOMAIN source |->
                         SceneObjectNew(Blocks[source[i]][1], Blocks[source[i]][2])],
                 out |-> SceneBuilderBuild(
                     [i \in DOMAIN source |->
                         SceneObjectNew(Blocks[source[i]][1], Blocks[source[i]][2])])]
    /\ UNCHANGED program_vars

\* Viewport::new(width, height, fov) followed by the setter calls of calls
CallViewportSetters(width, height, calls) ==
    /\ probe = NoCall
    /\ probe' = [op |-> "viewport", width |-> width, height |-> height, calls |-> calls,
                 out |-> SpacedViewportAfter(SpacedViewportNew(width, height), calls, 1)]
    /\ UNCHANGED program_vars

\* The objects of the scenes shaded with channels in [0, 255]
Objects255 ==
    {[color |-> c, specular |-> s, ambient |-> a] :
        c \in {Color255New(255, 255, 255), Color255New(200, 100, 0)},
        s \in {0, Num(1) \div 2},
        a \in {0, Num(1) \div 10}}

\* Raytracer::shading of src/main.rs on a hit of object whose reflected ray
\* hits nothing (behind = None) or hits the object behind.val, itself shaded
\* at the depth where the nested trace returns None
CallShading255(object, brightness, behind, brightness_behind) ==
    /\ probe = NoCall
    /\ probe' = [op |-> "shading255", object |-> object, brightness |-> brightness,
                 behind |-> behind,
                 out |-> Shading255(object, brightness,
                            IF behind.some
                            THEN Some(Shading255(behind.val, brightness_behind, None))
                            ELSE None)]
    /\ UNCHANGED program_vars

\* Vec3::is_unit on the vector a
CallIsUnit(a) ==
    /\ probe = NoCall
    /\ probe' = [op |-> "is_unit", a |-> a, out |-> is_unit(a)]
    /\ UNCHANGED program_vars

\* Largest depth of the trace calls whose nested calls are listed
MaxTraceDepth == 5

\* Two mirror walls facing each other across the origin
FacingMirrors ==
    << Object(PlaneNew(V(0, 0, 5), V(0, 0, -1)), Mirror),
       Object(PlaneNew(V(0, 0, -3), V(0, 0, 1)), Mirror) >>

\* Raytracer::trace(world, lights, ray, depth) with the calls of trace it makes
CallTraceCalls(world, lights, ray, depth) ==
    /\ probe = NoCall
    /\ probe' = [op |-> "trace_calls", world |-> world, ray |-> ray, depth |-> depth,
                 out |-> trace(world, lights, ray, depth),
                 calls |-> TraceCalls(world, lights, ray, depth, None)]
    /\ UNCHANGED program_vars

UnitNext ==
    \/ probe = NoCall /\ \E world \in UnitWorlds, lights \in UnitLights, pos \in UnitPoints :
           CallTraceToLights(world, lights, pos)
    \/ probe = NoCall /\ \E world \in UnitWorlds, lights \in UnitLights, pos \in UnitPoints,
           material \in {MatteRed, Mirror}, normal \in {V(0, 1, 0), V(0, 0, -1)} :
           CallLambertian(world, lights, material, pos, normal)
    \/ probe = NoCall /\ \E world \in UnitWorlds, lights \in UnitLights, depth \in 0 .. MaxDepth + 1,
           direction \in {V(0, 0, 1), V(0, 0, -1), V(0, -1, 1)} :
           CallTrace(world, lights, RayNew(V(0, 0, 0), direction), depth)
    \/ probe = NoCall /\ \E primitive \in UnitPrimitives, ray \in UnitRays :
           CallIntersection(primitive, ray)
    \/ probe = NoCall /\ \E s \in {"red", "green", "blue", "bronze", "Red", "BLUE", "gold", "",
                  " red", "bronze "} :
           CallFromStr(s)
    \/ probe = NoCall /\ \E s \in {"white", "black", "red", "green", "blue", "yellow", "cyan",
                  "magenta", "gold", "golden_yellow", "metallic_gold",
                  "old_gold", "golden_poppy", "Gold", "orange"} :
           CallColorFromStr(s)
    \/ probe = NoCall /\ \E n \in 0 .. MaxBlocks : \E source \in [1 .. n -> DOMAIN Blocks] :
           CallParse(source)
    \/ probe = NoCall /\ \E width \in 1 .. MaxDim + 1, height \in 1 .. MaxDim + 1,
                             n \in 0 .. 2 :
           \E calls \in [1 .. n -> {"set_width", "set_height"} \X (1 .. MaxDim + 1)] :
               CallViewportSetters(width, height, calls)
    \/ probe = NoCall /\ \E object \in Objects255,
                             behind \in {None} \cup {Some(o) : o \in Objects255},
                             brightness \in {0, Num(1) \div 2, Num(1)},
                             brightness_behind \in {0, Num(1)} :
           CallShading255(object, brightness, behind, brightness_behind)
    \/ probe = NoCall /\ \E x \in {0 - Num(1), 0, Half, Num(1), Num(2)},
                             y \in {0 - Num(1), 0, Half, Num(1), Num(2)},
                             z \in {0 - Num(1), 0, Half, Num(1), Num(2)} :
           CallIsUnit([x |-> x, y |-> y, z |-> z])
    \/ probe = NoCall /\ \E world \in UnitWorlds \cup {FacingMirrors},
                             depth \in -1 .. MaxTraceDepth,
                             direction \in {V(0, 0, 1), V(0, 0, -1), V(0, -1, 1)} :
           \* between the mirrors only the rays along the axis stay within
           \* the range of the numbers
           /\ world = FacingMirrors => direction.y = 0
           /\ CallTraceCalls(world, <<Light(V(0, 5, 0), Num(1))>>,
                             RayNew(V(0, 0, 0), direction), depth)

UnitSpec == UnitInit /\ [][UnitNext]_vars

\* ------------------------------------------------------------------------
\* Properties
\* ------------------------------------------------------------------------

Rendering == pc \in {"submit", "recv", "done"}

NoWorkerBusy == workers.running = {}

\* Every pixel task handed to the pool has run to its end.
TasksFinished == pc \in {"recv", "done"} /\ queue = <<>> /\ NoWorkerBusy

\* C1: once the submitted pixel tasks have finished, the receive loop of
\* par_raycast is never left waiting for a message that no task will send:
\* with an empty channel it has already received all it asked for.
C1_ReceiveNeverStarves ==
    (op.name = "par_raycast" /\ pc = "recv" /\ TasksFinished /\ chan = <<>>)
        => RecvLoopEnds

\* C2: the grid par_raycast has assembled once every message sent to it is
\* received, and so the grid it returns, equals cell for cell the grid
\* raycast computes for the same Raytracer, world and lights, whatever the
\* order in which the pool threads ran and their messages arrived.
C2_ParEqualsSequential ==
    (op.name = "par_raycast" /\ (pc = "done" \/ (TasksFinished /\ chan = <<>>)))
        => image = raycast(rt, World, Lights)

\* C2 witness: par_raycast returned a 2 x 2 grid with two distinct rows,
\* computed by two pool threads.
C2_Witness ==
    /\ op = Op("par_raycast", 2)
    /\ pc = "done"
    /\ Px = 2
    /\ Py = 2
    /\ image[1] # image[2]

\* The render has traced every ray it is going to trace.
RenderComplete ==
    \/ op.name = "raycast" /\ pc = "done"
    \/ op.name = "par_raycast" /\ TasksFinished

\* C3: in a completed render exactly one ray was traced for each slot
\* (row, col) of the grid, for every width and height.
C3_EverySlotTracedOnce ==
    RenderComplete => \A s \in Slots(Px, Py) : traced[s] = 1

\* C4: the grid a render returns has (last configured height) rows of
\* (last configured width) cells each.
C4_GridSize ==
    pc = "done" =>
        /\ Len(image) = cfg.height
        /\ \A r \in 1 .. Len(image) : Len(image[r]) = cfg.width

\* C4 witness: a render returned after both set_width and set_height changed
\* the size the camera was built with.
C4_Witness ==
    /\ pc = "done"
    /\ cfg.width # Scenes[scene].width
    /\ cfg.height # Scenes[scene].height
    /\ cfg.width # cfg.height
    /\ cfg.width > 0
    /\ cfg.height > 0

AllBackground ==
    \A r \in 1 .. Len(image) : \A c \in 1 .. Len(image[r]) :
        image[r][c] = rt.background_color

\* C5: with recursion depth 0 no pixel ray contributes: no task sends a
\* message and every cell of the grid is the background color.
C5_DepthZeroIsBackground ==
    (Rendering /\ rt.recurse_depth = 0) => (AllBackground /\ chan = <<>>)

\* C5 witness: raycast returned a non-empty grid at depth 0 for a scene in
\* which every pixel ray meets an object.
C5_Witness ==
    /\ pc = "done"
    /\ rt.recurse_depth = 0
    /\ scene = 1
    /\ Px = 2
    /\ Py = 2
    /\ TasksFinished

\* C6: a render of the unchanged scene returns the grid the previous render
\* returned, whichever strategy and schedule each of the two used.
C6_SameSceneSameGrid == (pc = "done" /\ last.some) => image = last.val

\* C6 witness: a second render of the unchanged scene, by par_raycast with
\* two pool threads, returned a grid in which pixel rays hit.
C6_Witness ==
    /\ pc = "done"
    /\ last.some
    /\ op = Op("par_raycast", 2)
    /\ Px = 2
    /\ Py = 2
    /\ ~AllBackground

ChannelInRange(v) == 0 <= v /\ v <= Num(1)

ColorInRange(c) == ChannelInRange(c.r) /\ ChannelInRange(c.g) /\ ChannelInRange(c.b)

MaterialInRange(m) ==
    /\ ColorInRange(m.color)
    /\ ColorInRange(m.specular)
    /\ ColorInRange(m.lambert)
    /\ ColorInRange(m.ambient)

SceneInRange(s) ==
    /\ ColorInRange(s.background)
    /\ \A i \in 1 .. Len(s.world) : MaterialInRange(s.world[i].material)

\* C7: for a scene whose material colors, coefficients and background are
\* within [0, 1], every channel of every cell of the grid, and of every
\* color a task sends, is within [0, 1].
C7_ChannelsInRange ==
    (Rendering /\ SceneInRange(Scenes[scene])) =>
        /\ \A r \in 1 .. Len(image) : \A c \in 1 .. Len(image[r]) :
               ColorInRange(image[r][c])
        /\ \A i \in 1 .. Len(chan) : ColorInRange(chan[i].color)

\* C7 witness: a returned grid with a channel at the upper bound, for the
\* scene whose diffuse and ambient terms add up to more than one.
C7_Witness ==
    /\ pc = "done"
    /\ scene = 1
    /\ Px = 2
    /\ Py = 2
    /\ image[1][1].r = Num(1)

ViewDir == Scenes[scene].view_dir

SquareIsZero(v) == Mul(v, v) = 0

\* C8 as stated: Camera::new returns DirectionZero exactly when the view
\* direction is the zero vector, and then there is no camera.
C8_ErrorIffZeroVector ==
    cam_res.some =>
        /\ (cam_res.val = Err(DirectionZero)) <=> (ViewDir = V(0, 0, 0))
        /\ cam_res.val.ok <=> (rt # None)

\* C8 amended: Camera::new returns DirectionZero exactly when the square of
\* every component of the view direction is zero in floating point: for the
\* zero vector, and for the non-zero vectors whose squares underflow.  It
\* returns a camera otherwise; after the error there is no camera.
C8_ErrorIffSquaresVanish ==
    cam_res.some =>
        /\ (cam_res.val = Err(DirectionZero))
               <=> (SquareIsZero(ViewDir.x) /\ SquareIsZero(ViewDir.y)
                    /\ SquareIsZero(ViewDir.z))
        /\ cam_res.val.ok <=> (rt # None)
        /\ cam_res.val.ok <=> (pc # "failed")

\* C8 witness: Camera::new returned DirectionZero for a non-zero direction.
C8_Witness ==
    /\ cam_res.some
    /\ cam_res.val = Err(DirectionZero)
    /\ ViewDir # V(0, 0, 0)
    /\ rt = None

\* What set_width and set_height both leave alone.
SameButViewport ==
    /\ rt'.camera.position = rt.camera.position
    /\ rt'.camera.rotation = rt.camera.rotation
    /\ rt'.camera.fov = rt.camera.fov
    /\ rt'.camera.distance = rt.camera.distance
    /\ rt'.background_color = rt.background_color
    /\ rt'.recurse_depth = rt.recurse_depth

\* C9: set_width(w) sets the horizontal pixel count to w and leaves the
\* vertical count, the position, rotation, field of view, viewport distance,
\* background color and recursion depth unchanged; set_height(h) likewise
\* for the vertical count.
C9_SettersFrame ==
    [][/\ op'.name = "set_width" =>
            /\ SameButViewport
            /\ rt'.camera.viewport.pixels_x = op'.arg
            /\ rt'.camera.viewport.pixels_y = rt.camera.viewport.pixels_y
       /\ op'.name = "set_height" =>
            /\ SameButViewport
            /\ rt'.camera.viewport.pixels_y = op'.arg
            /\ rt'.camera.viewport.pixels_x = rt.camera.viewport.pixels_x]_vars

\* C9 witness: set_width has just changed the width of a camera whose
\* height differs from both the old and the new width.
C9_Witness ==
    /\ op.name = "set_width"
    /\ Px # Scenes[scene].width
    /\ Py # Px
    /\ Py # Scenes[scene].width

\* Objects of the world that the ray hits
ObjectsHit(world, ray) == {i \in 1 .. Len(world) : RayTrace(ray, world[i]).some}

\* Squared distance from the origin of the ray to where it meets object i
DistanceAlongRay(world, ray, i) ==
    length_squared(VSub(RayTrace(ray, world[i]).val.intersection, ray.origin))

\* The object trace shades for the ray is nearest to the origin of the ray.
ShadesNearest(world, ray) ==
    \A i \in ObjectsHit(world, ray) :
        DistanceAlongRay(world, ray, NearestHit(world, ray, 1, None).val.object)
            <= DistanceAlongRay(world, ray, i)

\* C10: for every ray handed to trace, the object trace shades is the one
\* whose intersection point is nearest to the origin of the ray.
C10_ShadesNearestObject ==
    \A job \in workers.running :
        job.depth > 0 => ShadesNearest(World, job.ray)

\* Number of entries of seq equal to x
Count(seq, x) == Cardinality({i \in DOMAIN seq : seq[i] = x})

\* The probe ray meets at least one object of the world
Blocked(world, ray) == \E i \in 1 .. Len(world) : RayTrace(ray, world[i]).some

\* C11: the list trace_to_lights returns holds a light once if the probe ray
\* for that light hits none of the objects, and not at all if the probe ray
\* is blocked by at least one object.
C11_VisibleOnceBlockedNever ==
    probe.op = "trace_to_lights" =>
        \A j \in DOMAIN probe.lights :
            Count(probe.out, probe.lights[j])
                = IF Blocked(probe.world, ProbeRay(probe.pos, probe.lights[j]))
                  THEN 0 ELSE 1

\* C12: the probe ray trace_to_lights casts for a light starts at the hit
\* point and points from the hit point toward the position of the light.
C12_ProbeTowardLight ==
    probe.op = "trace_to_lights" =>
        \A j \in DOMAIN probe.lights :
            /\ ProbeRay(probe.pos, probe.lights[j]).origin = probe.pos
            /\ dot(ProbeRay(probe.pos, probe.lights[j]).dir,
                   VSub(probe.lights[j].pos, probe.pos)) > 0

\* The lights trace_to_lights reports for the call held in probe
ProbeVisible == trace_to_lights(probe.world, probe.lights, probe.pos)

\* The contribution lambertian computes for a light
Contribution(pos, normal, light) ==
    Mul(dot(normalize(direction_to(pos, light.pos)), normal), light.intensity)

\* C13: when lights are visible from the hit point, lambertian computes the
\* brightness from the first visible light in the order of the light list
\* alone: the other lights do not change the result, and the brightness is
\* 0 when the contribution of that light is not positive.
C13_FirstVisibleLightOnly ==
    (probe.op = "lambertian" /\ Len(ProbeVisible) > 0) =>
        /\ \E j \in DOMAIN probe.lights :
               /\ ProbeVisible[1] = probe.lights[j]
               /\ \A k \in 1 .. j - 1 : Count(ProbeVisible, probe.lights[k]) = 0
        /\ probe.out = lambertian(probe.world, <<ProbeVisible[1]>>, probe.material,
                                  probe.pos, probe.normal)
        /\ probe.out =
               ColorScale(probe.material.lambert,
                   IF Contribution(probe.pos, probe.normal, ProbeVisible[1]) > 0
                   THEN Min(Contribution(probe.pos, probe.normal, ProbeVisible[1]),
                            Num(1))
                   ELSE 0)

\* C13 witness: two lights are visible, the first contributes nothing, the
\* second would contribute, and the result is black.
C13_Witness ==
    /\ probe.op = "lambertian"
    /\ Len(probe.lights) = 2
    /\ Count(ProbeVisible, probe.lights[1]) > 0
    /\ Count(ProbeVisible, probe.lights[2]) > 0
    /\ Contribution(probe.pos, probe.normal, probe.lights[1]) <= 0
    /\ Contribution(probe.pos, probe.normal, probe.lights[2]) > 0
    /\ probe.out = ColorZero

\* The hit trace keeps for the call held in probe
ProbeHit == NearestHit(probe.world, probe.ray, 1, None).val

ProbeMaterial == probe.world[ProbeHit.object].material

\* The color trace returns if the reflected ray is traced at the given depth
ShadedWithBounceAt(depth) ==
    ColorAdd(
        ColorAdd(
            ColorMul(ProbeMaterial.color,
                     lambertian(probe.world, probe.lights, ProbeMaterial,
                                ProbeHit.ray_hit.intersection, ProbeHit.ray_hit.normal)),
            SpecularOf(ProbeMaterial,
                       trace(probe.world, probe.lights,
                             RayNew(ProbeHit.ray_hit.intersection,
                                    reflect(ProbeHit.ray_hit.intersection,
                                            ProbeHit.ray_hit.normal)),
                             depth))),
        ColorMul(ProbeMaterial.color, ProbeMaterial.ambient))

\* C14: when trace is called with depth d >= 1 and hits an object with a
\* non-zero specular coefficient, the color it returns holds the trace of
\* the reflected ray at depth d - 1.
C14_BounceAtDepthMinusOne ==
    (/\ probe.op = "trace"
     /\ probe.depth >= 1
     /\ NearestHit(probe.world, probe.ray, 1, None).some
     /\ ~ColorIsZero(ProbeMaterial.specular))
        => probe.out = Some(ShadedWithBounceAt(probe.depth - 1))

\* Distance from the origin of the ray in probe to the point pos, along the ray
AlongRay(pos) == dot(VSub(pos, probe.ray.origin), probe.ray.dir)

\* C15: every intersection a plane, a triangle or a sphere returns lies
\* ahead of the ray origin at a distance of at least FLOAT_EPS: a hit at a
\* smaller distance, distance 0 included, or behind the origin is no
\* intersection.
C15_HitsBeyondEpsilon ==
    (probe.op = "intersection" /\ probe.out.some)
        => ~LtEps(AlongRay(probe.out.val.pos))

\* The quadratic of the sphere and the ray held in probe: b, c and the
\* discriminant (a is dot(dir, dir))
QuadB == Mul(dot(probe.ray.dir, VSub(probe.ray.origin, probe.primitive.center)), Num(2))

QuadC ==
    dot(VSub(probe.ray.origin, probe.primitive.center),
        VSub(probe.ray.origin, probe.primitive.center))
    - Mul(probe.primitive.radius, probe.primitive.radius)

QuadDiscr ==
    Mul(QuadB, QuadB) - Mul(Mul(Num(4), dot(probe.ray.dir, probe.ray.dir)), QuadC)

\* The two real roots, smaller and larger
RootLo == Div(0 - QuadB - Sqrt(QuadDiscr), Mul(Num(2), dot(probe.ray.dir, probe.ray.dir)))

RootHi == Div(0 - QuadB + Sqrt(QuadDiscr), Mul(Num(2), dot(probe.ray.dir, probe.ray.dir)))

\* The point of the ray held in probe at distance t
RayAt(t) == VAdd(probe.ray.origin, VScale(probe.ray.dir, t))

\* p and q agree up to the rounding of the last digit
Near(p, q) == Abs(p.x - q.x) <= 2 /\ Abs(p.y - q.y) <= 2 /\ Abs(p.z - q.z) <= 2

TwoRootSphere ==
    /\ probe.op = "intersection"
    /\ probe.primitive.kind = "Sphere"
    /\ ~LtEps(QuadDiscr)

\* C16: a sphere intersection with two real roots is the point at the
\* smaller root when that root is not negative, the point at the larger
\* root when only the smaller one is negative, and no intersection exactly
\* when both are negative.
C16_SmallerNonNegativeRoot ==
    TwoRootSphere =>
        /\ probe.out.some <=> RootHi >= 0
        /\ probe.out.some =>
               Near(probe.out.val.pos, RayAt(IF RootLo >= 0 THEN RootLo ELSE RootHi))

\* C16 witness: the ray starts inside the sphere and the hit is at the
\* larger root.
C16_Witness ==
    /\ TwoRootSphere
    /\ RootLo < 0
    /\ RootHi > 0
    /\ probe.out.some
    /\ probe.out.val.pos = RayAt(RootHi)

\* C17: the normal returned with every sphere intersection has unit length,
\* whatever the radius.
C17_SphereNormalIsUnit ==
    (probe.op = "intersection" /\ probe.primitive.kind = "Sphere" /\ probe.out.some)
        => Abs(length(probe.out.val.normal) - Num(1)) <= 2

\* The ray held in probe is parallel to the plane, or to the plane of the
\* triangle, held in probe: direction . normal is within FLOAT_EPS of 0
ParallelToPlane ==
    /\ probe.op = "intersection"
    /\ probe.primitive.kind \in {"Plane", "Triangle"}
    /\ LtEps(Abs(dot(probe.ray.dir, probe.primitive.normal)))

\* A point of the plane of the primitive held in probe
PlanePoint == IF probe.primitive.kind = "Plane" THEN probe.primitive.point
              ELSE probe.primitive.t1

\* C19: a ray parallel to a plane, or to the plane of a triangle, yields no
\* intersection for every ray origin, origins in the plane included.
C19_ParallelNeverHits == ParallelToPlane => ~probe.out.some

\* C19 witness: a ray that starts in a plane and runs within it got no
\* intersection.
C19_Witness ==
    /\ ParallelToPlane
    /\ probe.primitive.kind = "Plane"
    /\ dot(VSub(PlanePoint, probe.ray.origin), probe.primitive.normal) = 0
    /\ ~probe.out.some

\* The assertions of Vec3::reflect and Sphere::intersection for the ray a
\* pool thread traces: they are evaluated when trace shades a hit on an
\* object with a non-zero specular coefficient
AssertionsHold(world, ray) ==
    /\ is_unit(ray.dir)
    /\ (/\ NearestHit(world, ray, 1, None).some
        /\ ~ColorIsZero(world[NearestHit(world, ray, 1, None).val.object]
                            .material.specular))
           => /\ is_unit(NearestHit(world, ray, 1, None).val.ray_hit.intersection)
              /\ is_unit(NearestHit(world, ray, 1, None).val.ray_hit.normal)

\* C18: during a render the receiver and the normal of every call of
\* Vec3::reflect are unit vectors and every ray reaching
\* Sphere::intersection has a unit direction: the debug assertions hold.
C18_DebugAssertionsHold ==
    \A job \in workers.running :
        job.depth > 0 => AssertionsHold(World, job.ray)

\* The templates get_name_tuples lists under the name s
Listed(s) ==
    {get_name_tuples[i][2] : i \in {k \in DOMAIN get_name_tuples : get_name_tuples[k][1] = s}}

\* C20: from_str returns the template of every pair of get_name_tuples for
\* its name, every variant of MaterialTemplate is in the list, and every
\* string that is not in the list is rejected with an error.
C20_NamesRoundTrip ==
    /\ {get_name_tuples[i][2] : i \in DOMAIN get_name_tuples} = MaterialTemplate
    /\ \A i \in DOMAIN get_name_tuples :
           from_str(get_name_tuples[i][1]) = Ok(get_name_tuples[i][2])
    /\ probe.op = "from_str" =>
           IF Listed(probe.s) = {} THEN ~probe.out.ok
           ELSE probe.out.ok /\ Listed(probe.s) = {probe.out.val}

\* C20 witness: the last listed name was parsed to its template.
C20_Witness ==
    /\ probe.op = "from_str"
    /\ probe.s = get_name_tuples[Len(get_name_tuples)][1]
    /\ probe.out = Ok("Bronze")

\* The RGB triple a color name denotes, components given out of 255
Denoted(s) ==
    CASE s = "white" -> <<255, 255, 255>>
      [] s = "black" -> <<0, 0, 0>>
      [] s = "red" -> <<255, 0, 0>>
      [] s = "green" -> <<0, 255, 0>>
      [] s = "blue" -> <<0, 0, 255>>
      [] s = "yellow" -> <<255, 255, 0>>
      [] s = "cyan" -> <<0, 255, 255>>
      [] s = "magenta" -> <<255, 0, 255>>
      [] s = "gold" -> <<255, 215, 0>>
      [] s = "golden_yellow" -> <<255, 223, 0>>
      [] s = "metallic_gold" -> <<212, 175, 55>>
      [] s = "old_gold" -> <<207, 181, 59>>
      [] s = "golden_poppy" -> <<252, 194, 0>>

\* C30: every named color converts to the RGB triple its name denotes, the
\* gold shades to their 0-255 components divided by 255, in red, green,
\* blue order.
C30_NamedColorsDenoteTheirRGB ==
    (probe.op = "color_from_str" /\ probe.out.ok) =>
        probe.out.val = Color(Div(Num(Denoted(probe.s)[1]), Num(255)),
                              Div(Num(Denoted(probe.s)[2]), Num(255)),
                              Div(Num(Denoted(probe.s)[3]), Num(255)))

\* The blocks of the text parsed in probe, and the block numbers among them
ProbeBlocks == [i \in DOMAIN probe.source |-> Blocks[probe.source[i]]]

Sourced(numbers) == {i \in DOMAIN probe.source : probe.source[i] \in numbers}

\* The keys of the material of a block; none when it has no material object
MaterialKeys(block) ==
    UNION {{block[2][i][2].v[k][1] : k \in DOMAIN block[2][i][2].v} :
           i \in {j \in DOMAIN block[2] :
                      block[2][j][1] = "material" /\ block[2][j][2].t = "Object"}}

\* The numbers of the blocks of the shape the claim C21 names: a camera
\* with width, height, pos and dir and no fov (1), a light (2), a sphere
\* whose material has a color, a template name and a coefficient (3), and
\* a sphere whose material has a color and ambient, lambert and specular
\* as numbers (5)
C21_Shape ==
    /\ probe.op = "parse"
    /\ Cardinality(Sourced({1})) = 1
    /\ Sourced({2}) # {}
    /\ Sourced({3, 5}) # {}
    /\ Sourced({1, 2, 3, 5}) = DOMAIN probe.source

\* C21: a scene with exactly one camera (fov omitted), a light and spheres
\* whose material gives a color and either a template name with some
\* coefficients or ambient, lambert and specular as numbers is accepted.
C21_TestSceneAccepted == C21_Shape => probe.out.ok

\* The second occurrences of a key in the options of a block, keys
\* compared without case
Repeated(options) ==
    {options[j][1] : j \in {k \in DOMAIN options : \E i \in 1 .. k - 1 :
                               to_lowercase(options[i][1]) = to_lowercase(options[k][1])}}

\* C22: a block that gives the same key twice, keys compared without case,
\* is rejected with DuplicateKey for the repeated key and the scene fails
\* to parse, also when both occurrences carry the same value.
C22_DuplicateKeyRejected ==
    probe.op = "parse" =>
        \A i \in DOMAIN ProbeBlocks :
            Repeated(ProbeBlocks[i][2]) # {} =>
                /\ ~probe.out.ok
                /\ \E k \in DOMAIN probe.out.err :
                       /\ probe.out.err[k].error = "DuplicateKey"
                       /\ probe.out.err[k].name \in Repeated(ProbeBlocks[i][2])

\* C22 witness: a valid camera and a sphere that gives r and R with the
\* same value; the only error is the duplicate key R.
C22_Witness ==
    /\ probe.op = "parse"
    /\ probe.source = <<1, 8>>
    /\ probe.out = Err(<<ParseError("DuplicateKey", "R")>>)

\* The keys a material needs and the block's material lacks
Lacking(block) ==
    IF "template" \in MaterialKeys(block) THEN {"color"} \ MaterialKeys(block)
    ELSE {"color", "lambert", "specular", "ambient"} \ MaterialKeys(block)

\* C23: a primitive whose material lacks a required key is rejected with a
\* MissingOption error and the scene fails to parse, also when the camera
\* and every other object are valid.
C23_MissingKeyRejected ==
    probe.op = "parse" =>
        \A i \in Sourced({3, 4, 5, 6, 9, 12}) :
            Lacking(ProbeBlocks[i]) # {} =>
                /\ ~probe.out.ok
                /\ \E k \in DOMAIN probe.out.err :
                       /\ probe.out.err[k].error = "MissingOption"
                       /\ probe.out.err[k].name \in Lacking(ProbeBlocks[i])

\* C23 witness: the scene of test_missing_key, a valid camera and a sphere
\* with an empty material; the only error is the missing color.
C23_Witness ==
    /\ probe.op = "parse"
    /\ probe.source = <<1, 6>>
    /\ probe.out = Err(<<ParseError("MissingOption", "color")>>)

\* The scene objects in probe that failed to build, and the number of
\* cameras among those that did not
Failed == {i \in DOMAIN probe.scene_objects : ~probe.scene_objects[i].ok}

NumCameras ==
    Cardinality({i \in DOMAIN probe.scene_objects :
                    probe.scene_objects[i].ok /\ probe.scene_objects[i].val.kind = "Camera"})

\* C25: SceneBuilder::build returns Ok exactly when no scene object
\* failed and there is exactly one camera; otherwise it returns the errors
\* of the objects in input order, followed by the camera-count error when
\* the number of cameras is not 1.
C25_OkIffOneCameraNoErrors ==
    probe.op = "parse" =>
        /\ probe.out.ok <=> (Failed = {} /\ NumCameras = 1)
        /\ ~probe.out.ok =>
               /\ Len(probe.out.err) = Cardinality(Failed) + (IF NumCameras = 1 THEN 0 ELSE 1)
               /\ \A k \in 1 .. Cardinality(Failed) :
                      \E i \in Failed :
                          /\ Cardinality({j \in Failed : j <= i}) = k
                          /\ probe.out.err[k] = probe.scene_objects[i].err
               /\ NumCameras # 1 =>
                      /\ probe.out.err[Len(probe.out.err)].error = "Custom"
                      /\ probe.out.err[Len(probe.out.err)].name[2] = NumCameras

\* C25 witness: two cameras and a sphere with an empty material give the
\* error of the sphere followed by the camera-count error.
C25_Witness ==
    /\ probe.op = "parse"
    /\ probe.source = <<1, 6, 1>>
    /\ ~probe.out.ok
    /\ Len(probe.out.err) = 2
    /\ probe.out.err[1] = ParseError("MissingOption", "color")
    /\ probe.out.err[2].error = "Custom"

\* C24: every call of ray_from_pixel made by raycast and par_raycast passes
\* pixel_x in [-pixels_x, pixels_x] and pixel_y in [-pixels_y, 0], the
\* ranges the documentation of ray_from_pixel requires.
C24_PixelArgsInDocumentedRange ==
    Rendering =>
        \A k \in 1 .. NumPixels(Px, Py) :
            /\ PixelArgs(PixelAt(Px, Py, k))[1] >= 0 - Num(Px)
            /\ PixelArgs(PixelAt(Px, Py, k))[1] <= Num(Px)
            /\ PixelArgs(PixelAt(Px, Py, k))[2] >= 0 - Num(Py)
            /\ PixelArgs(PixelAt(Px, Py, k))[2] <= 0

\* The value the last call of setter in probe.calls gave, or initial
LastSet(setter, initial) ==
    IF \E i \in DOMAIN probe.calls : probe.calls[i][1] = setter
    THEN probe.calls[CHOOSE i \in DOMAIN probe.calls :
                        /\ probe.calls[i][1] = setter
                        /\ \A j \in i + 1 .. Len(probe.calls) : probe.calls[j][1] # setter][2]
    ELSE initial

\* C26: in the viewport that stores the pixel spacing, after any sequence
\* of set_width and set_height calls the viewport equals the one
\* Viewport::new builds for the resulting width and height.
C26_SettersMatchNew ==
    probe.op = "viewport" =>
        probe.out = SpacedViewportNew(LastSet("set_width", probe.width),
                                      LastSet("set_height", probe.height))

\* C27: with channels in [0, 255], the shaded colour never exceeds 255 on
\* any channel, so the range assertions of the conversion to 8-bit channels
\* hold for it.
C27_ShadedColorInRange ==
    probe.op = "shading255" => Color255Asserted(probe.out)

\* C28: is_unit returns true exactly for the vectors whose length differs
\* from 1 by less than FLOAT_EPS, in either direction: false for the zero
\* vector and for every vector shorter than 1 - FLOAT_EPS or longer than
\* 1 + FLOAT_EPS.
C28_IsUnitExactlyNearOne ==
    probe.op = "is_unit" =>
        (probe.out <=> /\ LtEps(length(probe.a) - Num(1))
                       /\ LtEps(Num(1) - length(probe.a)))

\* C29: trace returns for every scene and depth, facing mirrors included;
\* each nested trace call has a depth strictly below its caller's; a call
\* with depth <= 0 examines no object; a pixel ray traced with depth d
\* causes at most d nested calls; a hit object with zero specular
\* coefficient causes no nested call.
C29_TraceCallsBounded ==
    probe.op = "trace_calls" =>
        /\ Len(probe.calls) >= 1
        /\ probe.calls[1].depth = probe.depth /\ ~probe.calls[1].caller.some
        /\ \A i \in 2 .. Len(probe.calls) :
               /\ probe.calls[i].caller = Some(probe.calls[i - 1].depth)
               /\ probe.calls[i].depth < probe.calls[i].caller.val
        /\ \A i \in DOMAIN probe.calls :
               probe.calls[i].depth <= 0 =>
                   probe.calls[i].examined = 0 /\ ~probe.calls[i].hit.some
        /\ Len(probe.calls) - 1 <= (IF probe.depth > 0 THEN probe.depth ELSE 0)
        /\ \A i \in DOMAIN probe.calls :
               (/\ probe.calls[i].hit.some
                /\ ColorIsZero(probe.world[probe.calls[i].hit.val].material.specular))
                   => i = Len(probe.calls)
        /\ (~probe.calls[1].hit.some) => ~probe.out.some

\* Facing mirrors traced from depth MaxTraceDepth: the nested calls go on
\* until the depth is used up, and the last one examines nothing.
C29_Witness ==
    /\ probe.op = "trace_calls"
    /\ probe.world = FacingMirrors
    /\ probe.depth = MaxTraceDepth
    /\ Len(probe.calls) >= 3
    /\ \A i \in 1 .. Len(probe.calls) - 1 : probe.calls[i].hit.some
    /\ probe.calls[Len(probe.calls)].depth <= 0
    /\ probe.calls[Len(probe.calls)].examined = 0

====
